---- MODULE Spec2Model ----
(***************************************************************************)
(* node-statsd: the UDP client with tags, mock mode and batching           *)
(* (src/unnamed/part_000, lines 883-1210).                                 *)
(*                                                                         *)
(* JavaScript values are records: numbers carry their value in hundredths  *)
(* (h), so that 1 is Num(100) and 0.5 is Num(50); strings are sequences of *)
(* one-character strings, so that length, concatenation and join are the   *)
(* real ones.                                                              *)
(***************************************************************************)
EXTENDS Integers, Sequences, FiniteSets, TLC

VARIABLES
    mock,             \* this.mock
    batch,            \* this.batch
    maxBatchLength,   \* this.maxBatchLength
    prefix,           \* this.prefix
    suffix,           \* this.suffix
    global_tags,      \* this.global_tags
    pendingMessages,  \* this.pendingMessages: <<[message, callback, id]>>
    batchLength,      \* this.batchLength
    sendTimeout,      \* this.sendTimeout: "null", "armed" (timer pending) or
                      \* "fired" (the handle of a timer that has run: still truthy)
    socket,           \* this.socket: "open" or "closed"
    sent,             \* every buffer handed to socket.send, with its continuation
    calls,            \* one record per public call: sendAll's closure and the
                      \* invocations of the caller's callback
    accepted,         \* the messages handed to _addToBatch / _send, in order
    delivered,        \* per message: the errors its callback was invoked with
    lastFlush,        \* what ran _sendBatch on a non-empty queue last
    timerSince,       \* the message whose _addToBatch made the last setTimeout
    closeCalled,      \* close() has been called
    host,             \* this.host
    lookup            \* the dns.lookup the constructor started, if any

\* the client with an idle timer (src/lib/statsd.js, lines 1-130)
VARIABLES
    sharedSocket,     \* this.socket: 0 (undefined) or the injected socket
    ephemeral_socket, \* this.ephemeral_socket: 0 (undefined) or a socket
    last_used_timer,  \* this.last_used_timer: 0 (undefined) or a timer handle
    sockets,          \* every dgram socket the client has held
    timers,           \* every setTimeout made: pending, cleared or fired
    writes,           \* every socket.send made: its socket, buffer and time
    sendLog,          \* every public call made: its arguments and its draws
    closeOutcomes,    \* how each call of close() ended
    consoleLog,       \* the number of console.log calls made
    now               \* the clock, in milliseconds

\* the sampler on its own
VARIABLES
    sampler           \* one decision: its inputs and, once taken, its result

\* the encoder on its own
VARIABLES
    encoder           \* one metric call: its arguments and, once made, its messages

\* a Multi and its client (src/unnamed/part_000, lines 558-880)
VARIABLES
    messages,         \* this.messages of the Multi
    multiCalls,       \* every metric call made on the Multi: its arguments and draws
    multiSends,       \* every Multi.send made: what it joined and what its callback got
    multiWrites       \* every socket.send made by the client's sendMessage

\* the client with a buffer (src/unnamed/part_000, lines 1-105)
VARIABLES
    batch_len,        \* this.batch_len
    batch_timeout,    \* this.batch_timeout
    last_send,        \* this.last_send
    buffer,           \* this.buffer
    interval,         \* the setInterval made by run_batch_timeout: "none" or "running"
    constructed       \* how `new Client(...)` ended: "no" (not yet run), "returned"
                      \* or "TypeError"

clientVars == <<mock, batch, maxBatchLength, prefix, suffix, global_tags,
                pendingMessages, batchLength, sendTimeout, socket, sent, calls,
                accepted, delivered, lastFlush, timerSince, closeCalled,
                host, lookup>>

idleVars == <<sharedSocket, ephemeral_socket, last_used_timer, sockets, timers,
              writes, sendLog, closeOutcomes, consoleLog, now>>

multiVars == <<messages, multiCalls, multiSends, multiWrites>>

bufferVars == <<batch_len, batch_timeout, last_send, buffer, interval, constructed>>

otherVars == <<multiVars, bufferVars>>

vars == <<clientVars, idleVars, sampler, encoder, otherVars>>

-----------------------------------------------------------------------------
(* Bounds of the model *)

MaxCalls == 2
MaxOps == 4
MaxTicks == 4

(* Program constants *)

DEFAULT_MAX_BATCH_LENGTH == 1500
DEFAULT_BATCH_LEN == 400
DEFAULT_BATCH_TIMEOUT == 500
EPHEMERAL_LIFETIME_MS == 1000

-----------------------------------------------------------------------------
(* JavaScript values *)

Undef == [t |-> "undef"]
Null == [t |-> "null"]
NaN == [t |-> "nan"]
\* the error reported by the completion of write k
Err(k) == [t |-> "error", write |-> k]
Fn == [t |-> "fn"]
Num(h) == [t |-> "num", h |-> h]
Whole(n) == Num(100 * n)
Arr(a) == [t |-> "arr", v |-> a]
Str(s) == [t |-> "str", v |-> s]

IsNumber(x) == x.t \in {"num", "nan"}
IsArray(x) == x.t = "arr"
IsFunction(x) == x.t = "fn"

\* ToBoolean: undefined, null, NaN, 0 and "" are falsy
Truthy(x) ==
    CASE x.t \in {"undef", "null", "nan"} -> FALSE
      [] x.t = "num" -> x.h # 0
      [] x.t = "str" -> Len(x.v) > 0
      [] OTHER -> TRUE

\* a || b
Or(a, b) == IF Truthy(a) THEN a ELSE b

\* unary minus
Neg(x) == IF x.t = "num" THEN Num(-x.h) ELSE NaN

\* a + b on numbers (undefined turns the sum into NaN)
Plus(a, b) == IF a.t = "num" /\ b.t = "num" THEN Num(a.h + b.h) ELSE NaN

\* x <= 1, in place of x < 1
LessThanOne_orOne(x) == x.t = "num" /\ x.h <= 100

\* a < 1
LessThanOne(x) == x.t = "num" /\ x.h < 100

Digit(d) == <<"0", "1", "2", "3", "4", "5", "6", "7", "8", "9">>[d + 1]

RECURSIVE NatStr(_)
NatStr(n) == IF n < 10 THEN <<Digit(n)>> ELSE NatStr(n \div 10) \o <<Digit(n % 10)>>

\* Number.prototype.toString of a number given in hundredths
NumStr(h) ==
    LET a == IF h < 0 THEN -h ELSE h
        f == a % 100
        frac == IF f = 0 THEN <<>>
                ELSE IF f % 10 = 0 THEN <<".", Digit(f \div 10)>>
                ELSE <<".", Digit(f \div 10), Digit(f % 10)>>
    IN  (IF h < 0 THEN <<"-">> ELSE <<>>) \o NatStr(a \div 100) \o frac

\* Array.prototype.join
RECURSIVE Join(_, _)
Join(strs, sep) ==
    IF Len(strs) = 0 THEN <<>>
    ELSE IF Len(strs) = 1 THEN strs[1]
    ELSE strs[1] \o sep \o Join(Tail(strs), sep)

\* string conversion in '' + x
ToStr(x) ==
    CASE x.t = "num" -> NumStr(x.h)
      [] x.t = "str" -> x.v
      [] x.t = "nan" -> <<"N", "a", "N">>
      [] x.t = "null" -> <<"n", "u", "l", "l">>
      [] x.t = "arr" -> Join(x.v, <<",">>)
      [] OTHER -> <<"u", "n", "d", "e", "f", "i", "n", "e", "d">>

-----------------------------------------------------------------------------
(* Callbacks: the values passed as `callback` inside the client *)

NoCallback == [kind |-> "none", call |-> 0]
UserCallback(i) == [kind |-> "user", call |-> i]
OnSend(i) == [kind |-> "onSend", call |-> i]
CloseSocket == [kind |-> "closeSocket", call |-> 0]

\* the client's mutable state as one value, threaded through the handlers
Cur ==
    [pendingMessages |-> pendingMessages, batchLength |-> batchLength,
     sendTimeout |-> sendTimeout, socket |-> socket, sent |-> sent,
     calls |-> calls, accepted |-> accepted, delivered |-> delivered,
     lastFlush |-> lastFlush, timerSince |-> timerSince]

\* the caller's callback of call i is invoked with (err, bytes)
InvokeUser(s, i, err, bytes) ==
    [s EXCEPT !.calls[i].cbCount = @ + 1,
              !.calls[i].cbErr = err,
              !.calls[i].cbBytes = bytes]

\* onSend without the calledback flag being set on an error
onSend_forgetsCalledback(s, i, error, bytes) ==
    LET s1 == [s EXCEPT !.calls[i].completed = @ + 1]
        c1 == s1.calls[i]
    IN  IF c1.calledback \/ ~c1.hasCb THEN s1
        ELSE IF Truthy(error)
             THEN InvokeUser(s1, i, error, Undef)
        ELSE LET s2 == [s1 EXCEPT !.calls[i].sentBytes = Plus(@, bytes)]
             IN  IF s2.calls[i].completed = s2.calls[i].n
                 THEN InvokeUser(s2, i, Null, s2.calls[i].sentBytes)
                 ELSE s2

\* onSend that reports the bytes of the last completion, not their sum
onSend_lastBytesOnly(s, i, error, bytes) ==
    LET s1 == [s EXCEPT !.calls[i].completed = @ + 1]
        c1 == s1.calls[i]
    IN  IF c1.calledback \/ ~c1.hasCb THEN s1
        ELSE IF Truthy(error)
             THEN InvokeUser([s1 EXCEPT !.calls[i].calledback = TRUE], i, error, Undef)
        ELSE LET s2 == [s1 EXCEPT !.calls[i].sentBytes = bytes]
             IN  IF s2.calls[i].completed = s2.calls[i].n
                 THEN InvokeUser(s2, i, Null, s2.calls[i].sentBytes)
                 ELSE s2

\* onSend that keeps an error until every completion has arrived
onSend_waitsForAll(s, i, error, bytes) ==
    LET s1 == [s EXCEPT !.calls[i].completed = @ + 1]
        c1 == s1.calls[i]
    IN  IF c1.calledback \/ ~c1.hasCb THEN s1
        ELSE IF Truthy(error)
             THEN IF c1.completed = c1.n
                  THEN InvokeUser([s1 EXCEPT !.calls[i].calledback = TRUE], i, error, Undef)
                  ELSE s1
        ELSE LET s2 == [s1 EXCEPT !.calls[i].sentBytes = Plus(@, bytes)]
             IN  IF s2.calls[i].completed = s2.calls[i].n
                 THEN InvokeUser(s2, i, Null, s2.calls[i].sentBytes)
                 ELSE s2

\* sendAll's closure onSend(error, bytes) of call i
onSend(s, i, error, bytes) ==
    LET s1 == [s EXCEPT !.calls[i].completed = @ + 1]
        c1 == s1.calls[i]
    IN  IF c1.calledback \/ ~c1.hasCb THEN s1
        ELSE IF Truthy(error)
             THEN InvokeUser([s1 EXCEPT !.calls[i].calledback = TRUE], i, error, Undef)
        ELSE LET s2 == [s1 EXCEPT !.calls[i].sentBytes = Plus(@, bytes)]
             IN  IF s2.calls[i].completed = s2.calls[i].n
                 THEN InvokeUser(s2, i, Null, s2.calls[i].sentBytes)
                 ELSE s2

\* callback(a, b) for a callback value of the client
Invoke(s, cb, a, b) ==
    CASE cb.kind = "user" -> InvokeUser(s, cb.call, a, b)
      [] cb.kind = "onSend" -> onSend(s, cb.call, a, b)
      [] cb.kind = "closeSocket" -> [s EXCEPT !.socket = "closed"]
      [] OTHER -> s

\* a message's own callback is invoked with (err, bytes): Invoke, and the record of it
InvokeMessage(s, id, cb, err, bytes) ==
    IF cb.kind = "none" THEN s
    ELSE Invoke([s EXCEPT !.delivered[id] = Append(@, err)], cb, err, bytes)

RECURSIVE ForEachCallback(_, _, _, _, _)
ForEachCallback(s, ids, cbs, err, j) ==
    IF j > Len(cbs) THEN s
    ELSE ForEachCallback(InvokeMessage(s, ids[j], cbs[j], err, Undef), ids, cbs, err, j + 1)

\* the batch's function(err) passing the error to batchCallback only
RunContinuation_dropsError(s, w, err, bytes) ==
    IF w.wrap
    THEN ForEachCallback(Invoke(s, w.batchCb, err, Undef), w.ids, w.cbs, Null, 1)
    ELSE InvokeMessage(s, w.ids[1], w.cbs[1], err, bytes)

\* The function handed to socket.send (or called at once by a mock client):
\* for a batch, _sendBatch's function(err) { batchCallback(err); callbacks.forEach(...) };
\* otherwise the message's callback itself, called with (err, bytes).
RunContinuation(s, w, err, bytes) ==
    IF w.wrap
    THEN ForEachCallback(Invoke(s, w.batchCb, err, Undef), w.ids, w.cbs, err, 1)
    ELSE InvokeMessage(s, w.ids[1], w.cbs[1], err, bytes)

\* _send that does not look at this.mock
_send_ignoresMock(s, message, w) ==
    [s EXCEPT !.sent = Append(@, [buf |-> message, wrap |-> w.wrap, ids |-> w.ids,
                                   cbs |-> w.cbs, batchCb |-> w.batchCb,
                                   host |-> host, status |-> "inflight"])]

\* Client.prototype._send: one socket.send, or for a mock client callback(null, 0)
_send(s, message, w) ==
    IF ~mock
    THEN [s EXCEPT !.sent = Append(@, [buf |-> message, wrap |-> w.wrap, ids |-> w.ids,
                                       cbs |-> w.cbs, batchCb |-> w.batchCb,
                                       host |-> host, status |-> "inflight"])]
    ELSE RunContinuation(s, w, Null, Whole(0))

\* _sendBatch that does not reset pendingMessages and batchLength
_sendBatch_keepsQueue(s, batchCallback, why) ==
    IF Len(s.pendingMessages) > 0
    THEN LET q == s.pendingMessages
             batchMessage == Join([j \in 1..Len(q) |-> q[j].message], <<"\n">>)
             w == [wrap |-> TRUE, ids |-> [j \in 1..Len(q) |-> q[j].id],
                   cbs |-> [j \in 1..Len(q) |-> q[j].callback], batchCb |-> batchCallback]
         IN  [_send(s, batchMessage, w) EXCEPT !.lastFlush = why]
    ELSE Invoke(s, batchCallback, Undef, Undef)

\* _sendBatch that empties pendingMessages and leaves batchLength as it is
_sendBatch_keepsLength(s, batchCallback, why) ==
    IF Len(s.pendingMessages) > 0
    THEN LET q == s.pendingMessages
             batchMessage == Join([j \in 1..Len(q) |-> q[j].message], <<"\n">>)
             w == [wrap |-> TRUE, ids |-> [j \in 1..Len(q) |-> q[j].id],
                   cbs |-> [j \in 1..Len(q) |-> q[j].callback], batchCb |-> batchCallback]
             s1 == _send(s, batchMessage, w)
         IN  [s1 EXCEPT !.pendingMessages = <<>>, !.lastFlush = why]
    ELSE Invoke(s, batchCallback, Undef, Undef)

\* Client.prototype._sendBatch
_sendBatch(s, batchCallback, why) ==
    IF Len(s.pendingMessages) > 0
    THEN LET q == s.pendingMessages
             batchMessage == Join([j \in 1..Len(q) |-> q[j].message], <<"\n">>)
             w == [wrap |-> TRUE, ids |-> [j \in 1..Len(q) |-> q[j].id],
                   cbs |-> [j \in 1..Len(q) |-> q[j].callback], batchCb |-> batchCallback]
             s1 == _send(s, batchMessage, w)
         IN  [s1 EXCEPT !.pendingMessages = <<>>, !.batchLength = 0, !.lastFlush = why]
    ELSE Invoke(s, batchCallback, Undef, Undef)

\* Client.prototype._addToBatch
_addToBatch(s, message, callback, id) ==
    IF Len(message) > 0
    THEN LET s1 == IF s.batchLength + Len(message) > maxBatchLength
                   THEN [_sendBatch(s, NoCallback, "size") EXCEPT !.sendTimeout = "null"]
                   ELSE IF s.sendTimeout = "null"
                        THEN [s EXCEPT !.sendTimeout = "armed", !.timerSince = id]
                        ELSE s
         IN  [s1 EXCEPT !.pendingMessages =
                            Append(@, [message |-> message, callback |-> callback, id |-> id]),
                        !.batchLength = @ + Len(message)]
    ELSE s

\* a message that lists the global tags before the call's tags
message_globalTagsFirst(stat, value, type, sampleRate, tags, sampled) ==
    LET base == prefix \o stat \o suffix \o <<":">> \o ToStr(value) \o <<"|">> \o type
        rated == IF sampled THEN base \o <<"|", "@">> \o ToStr(sampleRate) ELSE base
        merged_tags == (IF Truthy(global_tags) /\ IsArray(global_tags)
                        THEN global_tags.v ELSE <<>>)
                       \o (IF Truthy(tags) /\ IsArray(tags) THEN tags.v ELSE <<>>)
    IN  IF Len(merged_tags) > 0
        THEN rated \o <<"|", "#">> \o Join(merged_tags, <<",">>)
        ELSE rated

\* the text of Client.prototype.send's message once the sample has passed
message(stat, value, type, sampleRate, tags, sampled) ==
    LET base == prefix \o stat \o suffix \o <<":">> \o ToStr(value) \o <<"|">> \o type
        rated == IF sampled THEN base \o <<"|", "@">> \o ToStr(sampleRate) ELSE base
        merged_tags == (IF Truthy(tags) /\ IsArray(tags) THEN tags.v ELSE <<>>)
                       \o (IF Truthy(global_tags) /\ IsArray(global_tags)
                           THEN global_tags.v ELSE <<>>)
    IN  IF Len(merged_tags) > 0
        THEN rated \o <<"|", "#">> \o Join(merged_tags, <<",">>)
        ELSE rated

\* the sample test with <= in place of <
Passes_orEqual(draw, sampleRate) == draw <= sampleRate.h

\* the sample test of Client.prototype.send: Math.random() < sampleRate
Passes(draw, sampleRate) == draw < sampleRate.h

\* Client.prototype.send for call i; draw is Math.random() in hundredths
send(s, i, stat, value, type, sampleRate, tags, callback, draw) ==
    LET sampling == Truthy(sampleRate) /\ LessThanOne(sampleRate)
        s0 == IF sampling THEN [s EXCEPT !.calls[i].draws = Append(@, draw)] ELSE s
    IN  IF sampling /\ ~Passes(draw, sampleRate)
        THEN [s0 EXCEPT !.calls[i].dropped = @ + 1]
        ELSE LET msg == message(stat, value, type, sampleRate, tags, sampling)
                 id == Len(s0.accepted) + 1
                 s1 == [s0 EXCEPT !.accepted = Append(@, msg),
                                  !.delivered = Append(@, <<>>),
                                  !.calls[i].msgs = Append(@, id)]
             IN  IF batch
                 THEN _addToBatch(s1, msg, callback, id)
                 ELSE _send(s1, msg, [wrap |-> FALSE, ids |-> <<id>>,
                                      cbs |-> <<callback>>, batchCb |-> NoCallback])

\* the callback value of call i for a JavaScript value passed as callback
CallbackOf(x, i) == IF IsFunction(x) THEN UserCallback(i) ELSE NoCallback

\* sendAll's reading of its optional arguments
Arguments(sampleRate, tags, callback) ==
    LET a == IF Truthy(sampleRate) /\ ~IsNumber(sampleRate)
             THEN [sampleRate |-> Undef, tags |-> sampleRate, callback |-> tags]
             ELSE [sampleRate |-> sampleRate, tags |-> tags, callback |-> callback]
    IN  IF Truthy(a.tags) /\ ~IsArray(a.tags)
        THEN [a EXCEPT !.callback = a.tags, !.tags = Undef]
        ELSE a

RECURSIVE ForEachStat(_, _, _, _, _, _, _, _, _)
ForEachStat(s, i, items, value, type, sampleRate, tags, draws, k) ==
    IF k > Len(items) THEN s
    ELSE ForEachStat(send(s, i, items[k], value, type, sampleRate, tags, OnSend(i), draws[k]),
                     i, items, value, type, sampleRate, tags, draws, k + 1)

\* Client.prototype.sendAll, as call i
sendAll(s, i, stat, value, type, sampleRate, tags, callback, draws) ==
    LET a == Arguments(sampleRate, tags, callback)
    IN  IF IsArray(stat)
        THEN ForEachStat(s, i, stat.v, value, type, a.sampleRate, a.tags, draws, 1)
        ELSE send(s, i, stat.v, value, type, a.sampleRate, a.tags,
                  CallbackOf(a.callback, i), draws[1])

\* the public metric methods
Methods == {"timing", "increment", "decrement", "histogram", "gauge", "set", "unique"}

\* type codes with histogram sent as a timing
TypeCode_histogramAsTiming(method) ==
    CASE method \in {"timing", "histogram"} -> <<"m", "s">>
      [] method \in {"increment", "decrement"} -> <<"c">>
      [] method = "gauge" -> <<"g">>
      [] OTHER -> <<"s">>

TypeCode(method) ==
    CASE method = "timing" -> <<"m", "s">>
      [] method \in {"increment", "decrement"} -> <<"c">>
      [] method = "histogram" -> <<"h">>
      [] method = "gauge" -> <<"g">>
      [] OTHER -> <<"s">>

ValueOf(method, value) ==
    CASE method = "increment" -> Or(value, Whole(1))
      [] method = "decrement" -> Or(Neg(value), Whole(-1))
      [] OTHER -> value

\* the record of a new call: sendAll's locals and what the caller observes
NewCall(stat, sampleRate, tags, callback) ==
    LET a == Arguments(sampleRate, tags, callback)
    IN  [isArray |-> IsArray(stat),
         n |-> Len(stat.v),
         hasCb |-> IsFunction(a.callback),
         rate |-> a.sampleRate,
         completed |-> 0, calledback |-> FALSE, sentBytes |-> Whole(0),
         cbCount |-> 0, cbErr |-> Undef, cbBytes |-> Undef,
         msgs |-> <<>>, dropped |-> 0,
         names |-> IF IsArray(stat) THEN stat.v ELSE <<stat.v>>, draws |-> <<>>]

-----------------------------------------------------------------------------
(* Inputs *)

Args(stat, sampleRate, tags, callback) ==
    [stat |-> stat, sampleRate |-> sampleRate, tags |-> tags, callback |-> callback]

Draws == {25, 75}

\* (stat, sampleRate, tags, callback) of the calls made: one name with every
\* sample rate, one name without a callback, arrays of one and of two names
CallArgs ==
    {Args(Str(<<"a">>), r, Undef, Fn) : r \in {Undef, Num(0), Num(50), Whole(1)}}
    \cup {Args(Str(<<"a">>), Undef, Undef, Undef),
          Args(Arr(<<<<"a">>>>), Undef, Undef, Fn),
          Args(Arr(<<<<"a">>, <<"b">>>>), Undef, Undef, Fn),
          Args(Arr(<<<<"a">>, <<"b">>>>), Num(50), Undef, Fn),
          Args(Arr(<<<<"a">>, <<"b">>>>), Undef, Undef, Undef)}

Values == {Whole(1)}
MethodsCalled == {"increment"}
MaxBatchLengthOptions == {Undef, Whole(10)}

-----------------------------------------------------------------------------
(* The state machine *)

Update(r) ==
    /\ pendingMessages' = r.pendingMessages
    /\ batchLength' = r.batchLength
    /\ sendTimeout' = r.sendTimeout
    /\ socket' = r.socket
    /\ sent' = r.sent
    /\ calls' = r.calls
    /\ accepted' = r.accepted
    /\ delivered' = r.delivered
    /\ lastFlush' = r.lastFlush
    /\ timerSince' = r.timerSince

Config == <<mock, batch, maxBatchLength, prefix, suffix, global_tags>>

\* no client with an idle timer has been constructed
NoIdleClient ==
    /\ sharedSocket = 0
    /\ ephemeral_socket = 0
    /\ last_used_timer = 0
    /\ sockets = <<>>
    /\ timers = <<>>
    /\ writes = <<>>
    /\ sendLog = <<>>
    /\ closeOutcomes = <<>>
    /\ consoleLog = 0
    /\ now = 0

\* no sampling decision is under study
NoSampler == sampler = [phase |-> "none"]

\* no Multi has been made
NoMulti ==
    /\ messages = <<>>
    /\ multiCalls = <<>>
    /\ multiSends = <<>>
    /\ multiWrites = <<>>

\* no client with a buffer is under construction
NoBufferClient ==
    /\ batch_len = 0
    /\ batch_timeout = 0
    /\ last_send = 0
    /\ buffer = <<>>
    /\ interval = "none"
    /\ constructed = "no"

NoOthers == NoMulti /\ NoBufferClient

\* no metric call is under study
NoEncoder == encoder = [phase |-> "none"]

\* options.host: omitted or a name
HostOptions == {Undef, Str(<<"stats">>)}

\* options.cacheDns is not true: the constructor starts no lookup
NoLookup == [state |-> "none"]

\* a constructor that creates no socket for a mock client
ClientInit_mockWithoutSocket ==
    /\ mock \in BOOLEAN
    /\ batch \in BOOLEAN
    /\ \E o \in MaxBatchLengthOptions :
          maxBatchLength = Or(o, Whole(DEFAULT_MAX_BATCH_LENGTH)).h \div 100
    /\ prefix = <<>>
    /\ suffix = <<>>
    /\ global_tags = Arr(<<>>)
    /\ pendingMessages = <<>>
    /\ batchLength = 0
    /\ sendTimeout = "null"
    /\ socket = IF mock THEN "none" ELSE "open"
    /\ sent = <<>>
    /\ calls = <<>>
    /\ accepted = <<>>
    /\ delivered = <<>>
    /\ lastFlush = "none"
    /\ timerSince = 0
    /\ closeCalled = FALSE
    /\ \E options_host \in HostOptions, cacheDns \in BOOLEAN :
          /\ host = Or(options_host, Str(<<"localhost">>))
          /\ lookup = IF cacheDns THEN [state |-> "pending", hostname |-> options_host]
                      ELSE NoLookup

\* new Client(options)
ClientInit ==
    /\ mock \in BOOLEAN
    /\ batch \in BOOLEAN
    /\ \E o \in MaxBatchLengthOptions :
          maxBatchLength = Or(o, Whole(DEFAULT_MAX_BATCH_LENGTH)).h \div 100
    /\ prefix = <<>>
    /\ suffix = <<>>
    /\ global_tags = Arr(<<>>)
    /\ pendingMessages = <<>>
    /\ batchLength = 0
    /\ sendTimeout = "null"
    /\ socket = "open"
    /\ sent = <<>>
    /\ calls = <<>>
    /\ accepted = <<>>
    /\ delivered = <<>>
    /\ lastFlush = "none"
    /\ timerSince = 0
    /\ closeCalled = FALSE
    /\ \E options_host \in HostOptions, cacheDns \in BOOLEAN :
          /\ host = Or(options_host, Str(<<"localhost">>))
          /\ lookup = IF cacheDns THEN [state |-> "pending", hostname |-> options_host]
                      ELSE NoLookup

Init == ClientInit /\ NoIdleClient /\ NoSampler /\ NoEncoder /\ NoOthers

\* client.<method>(stat, value, sampleRate, tags, callback), as the next call;
\* the caller makes no metric call after close()
Call(method, stat, value, sampleRate, tags, callback) ==
    /\ ~closeCalled
    /\ Len(calls) < MaxCalls
    /\ \E draws \in [1..Len(stat.v) -> Draws] :
          LET i == Len(calls) + 1
              s == [Cur EXCEPT !.calls = Append(@, NewCall(stat, sampleRate, tags, callback))]
          IN  Update(sendAll(s, i, stat, ValueOf(method, value), TypeCode(method),
                             sampleRate, tags, callback, draws))
    /\ UNCHANGED <<Config, host, lookup, closeCalled, idleVars, sampler, encoder, otherVars>>

\* the batching deadline timer runs: setTimeout(this._sendBatch.bind(this), ...)
TimerFire ==
    /\ sendTimeout = "armed"
    /\ Update(_sendBatch([Cur EXCEPT !.sendTimeout = "fired"], NoCallback, "deadline"))
    /\ UNCHANGED <<Config, host, lookup, closeCalled, idleVars, sampler, encoder, otherVars>>

\* socket.send number k completes, with an error or with the bytes written
WriteComplete(k, failed) ==
    /\ k \in 1..Len(sent)
    /\ sent[k].status = "inflight"
    /\ LET w == sent[k]
           s == [Cur EXCEPT !.sent[k].status = IF failed THEN "error" ELSE "ok"]
       IN  Update(IF failed THEN RunContinuation(s, w, Err(k), Undef)
                  ELSE RunContinuation(s, w, Null, Whole(Len(w.buf))))
    /\ UNCHANGED <<Config, host, lookup, closeCalled, idleVars, sampler, encoder, otherVars>>

\* close() that closes the socket without waiting for the batch write
Close_withoutWaiting ==
    /\ ~closeCalled
    /\ closeCalled' = TRUE
    /\ IF batch
       THEN Update([_sendBatch([Cur EXCEPT !.sendTimeout = "null"], NoCallback, "close")
                       EXCEPT !.socket = "closed"])
       ELSE Update([Cur EXCEPT !.socket = "closed"])
    /\ UNCHANGED <<Config, host, lookup, idleVars, sampler, encoder, otherVars>>

\* close() that leaves the deadline timer as it is
Close_keepsTimer ==
    /\ ~closeCalled
    /\ closeCalled' = TRUE
    /\ IF batch
       THEN Update(_sendBatch(Cur, CloseSocket, "close"))
       ELSE Update([Cur EXCEPT !.socket = "closed"])
    /\ UNCHANGED <<Config, host, lookup, idleVars, sampler, encoder, otherVars>>

\* Client.prototype.close
Close ==
    /\ ~closeCalled
    /\ closeCalled' = TRUE
    /\ IF batch
       THEN Update(_sendBatch([Cur EXCEPT !.sendTimeout = "null"], CloseSocket, "close"))
       ELSE Update([Cur EXCEPT !.socket = "closed"])
    /\ UNCHANGED <<Config, host, lookup, idleVars, sampler, encoder, otherVars>>

SomeCall ==
    \E method \in MethodsCalled, value \in Values, a \in CallArgs :
       Call(method, a.stat, value, a.sampleRate, a.tags, a.callback)

SomeWriteComplete == \E k \in DOMAIN sent, failed \in BOOLEAN : WriteComplete(k, failed)

Next ==
    \/ SomeCall
    \/ TimerFire
    \/ SomeWriteComplete
    \/ Close

\* the address dns.lookup gives for a hostname: null for a missing one
Resolved(hostname) == IF Truthy(hostname) THEN Str(<<"192.0.2.1">>) ELSE Null

\* a lookup callback that takes the address whatever err is
LookupComplete_ignoresError(err) ==
    /\ lookup.state = "pending"
    /\ err # Null => Truthy(lookup.hostname)
    /\ LET address == IF err = Null THEN Resolved(lookup.hostname) ELSE Undef
       IN  /\ host' = address
           /\ lookup' = [state |-> IF err = Null THEN "resolved" ELSE "failed",
                         hostname |-> lookup.hostname, address |-> address]
    /\ UNCHANGED <<Config, pendingMessages, batchLength, sendTimeout, socket, sent, calls,
                   accepted, delivered, lastFlush, timerSince, closeCalled,
                   idleVars, sampler, encoder, otherVars>>

\* the callback the constructor gives to dns.lookup runs:
\* function (err, address, family) { if (err == null) self.host = address }
LookupComplete(err) ==
    /\ lookup.state = "pending"
    /\ err # Null => Truthy(lookup.hostname)
    /\ LET address == IF err = Null THEN Resolved(lookup.hostname) ELSE Undef
       IN  /\ host' = IF err = Null THEN address ELSE host
           /\ lookup' = [state |-> IF err = Null THEN "resolved" ELSE "failed",
                         hostname |-> lookup.hostname, address |-> address]
    /\ UNCHANGED <<Config, pendingMessages, batchLength, sendTimeout, socket, sent, calls,
                   accepted, delivered, lastFlush, timerSince, closeCalled,
                   idleVars, sampler, encoder, otherVars>>

SomeLookupComplete == \E err \in {Null, Err(0)} : LookupComplete(err)

FullNext ==
    \/ Next
    \/ SomeLookupComplete

\* every configuration of the client
Spec == Init /\ [][FullNext]_vars

\* a client constructed with cacheDns: true
DnsInit == Init /\ ~mock /\ lookup.state = "pending"

\* client.increment('a')
DnsCall == Call("increment", Str(<<"a">>), Undef, Undef, Undef, Undef)

DnsNext ==
    \/ DnsCall
    \/ TimerFire
    \/ SomeWriteComplete
    \/ Close
    \/ SomeLookupComplete

DnsSpec == DnsInit /\ [][DnsNext]_vars

\* a client that is neither a mock nor batching: each send is one socket.send
DirectInit ==
    /\ Init /\ ~mock /\ ~batch /\ maxBatchLength = DEFAULT_MAX_BATCH_LENGTH
    /\ host = Str(<<"stats">>) /\ lookup = NoLookup

DirectNext ==
    \/ SomeCall
    \/ SomeWriteComplete
    \/ Close

DirectSpec == DirectInit /\ [][DirectNext]_vars

\* the same client, every call being a fan-out call with a callback
FanOutArgs == {a \in CallArgs : IsArray(a.stat) /\ IsFunction(a.callback)}

FanOutCall ==
    \E method \in MethodsCalled, value \in Values, a \in FanOutArgs :
       Call(method, a.stat, value, a.sampleRate, a.tags, a.callback)

FanOutNext ==
    \/ FanOutCall
    \/ SomeWriteComplete
    \/ Close

FanOutSpec == DirectInit /\ [][FanOutNext]_vars

\* a batching client that is not a mock
BatchInit == Init /\ ~mock /\ batch /\ host = Str(<<"stats">>) /\ lookup = NoLookup

BatchSpec == BatchInit /\ [][Next]_vars

\* the event loop runs a pending timer and completes a pending write
\* (for a client given a small maxBatchLength, so that size flushes happen)
BatchFairInit == BatchInit /\ maxBatchLength < DEFAULT_MAX_BATCH_LENGTH

BatchFairSpec ==
    BatchFairInit /\ [][Next]_vars /\ WF_vars(TimerFire) /\ WF_vars(SomeWriteComplete)

\* a mock client, batching or not: no write is ever in flight
MockInit == Init /\ mock /\ host = Str(<<"stats">>) /\ lookup = NoLookup

MockNext ==
    \/ SomeCall
    \/ TimerFire
    \/ Close

MockSpec == MockInit /\ [][MockNext]_vars

-----------------------------------------------------------------------------
(* The client with an idle timer: src/lib/statsd.js, lines 1-130 *)

Range(f) == {f[x] : x \in DOMAIN f}

IdleCur ==
    [sharedSocket |-> sharedSocket, ephemeral_socket |-> ephemeral_socket,
     last_used_timer |-> last_used_timer, sockets |-> sockets, timers |-> timers,
     writes |-> writes]

IdleUpdate(c) ==
    /\ sharedSocket' = c.sharedSocket
    /\ ephemeral_socket' = c.ephemeral_socket
    /\ last_used_timer' = c.last_used_timer
    /\ sockets' = c.sockets
    /\ timers' = c.timers
    /\ writes' = c.writes

\* dgram.createSocket('udp4'): a new socket, not yet closed
createSocket(injected) ==
    [injected |-> injected, closes |-> 0, closedBy |-> "nobody", closedAt |-> 0]

\* socket.close() on socket k, called by who at time t
closeSocket(c, k, who, t) ==
    [c EXCEPT !.sockets[k] = [@ EXCEPT !.closes = @ + 1, !.closedBy = who, !.closedAt = t]]

\* clearTimeout(handle): a pending timer will not run; any other handle is ignored
clearTimeout(c, k) ==
    IF c.timers[k].state = "pending" THEN [c EXCEPT !.timers[k].state = "cleared"] ELSE c

\* _update_last_used that arms a timer without clearing the one before
_update_last_used_keepsOldTimer(c, t) ==
    IF c.ephemeral_socket # 0
    THEN [c EXCEPT !.timers = Append(@, [state |-> "pending",
                                         due |-> t + EPHEMERAL_LIFETIME_MS]),
                   !.last_used_timer = Len(c.timers) + 1]
    ELSE c

\* Client.prototype._update_last_used, at time t
_update_last_used(c, t) ==
    IF c.ephemeral_socket # 0
    THEN LET c1 == IF c.last_used_timer # 0 THEN clearTimeout(c, c.last_used_timer) ELSE c
         IN  [c1 EXCEPT !.timers = Append(@, [state |-> "pending",
                                              due |-> t + EPHEMERAL_LIFETIME_MS]),
                        !.last_used_timer = Len(c1.timers) + 1]
    ELSE c

\* Client.prototype.send_data, at time t
send_data(c, buf, t) ==
    LET c1 == IF c.sharedSocket = 0 /\ c.ephemeral_socket = 0
              THEN [c EXCEPT !.sockets = Append(@, createSocket(FALSE)),
                             !.ephemeral_socket = Len(c.sockets) + 1]
              ELSE c
        socket_ == IF c.sharedSocket = 0 THEN c1.ephemeral_socket ELSE c.sharedSocket
        c2 == _update_last_used(c1, t)
    IN  [c2 EXCEPT !.writes = Append(@, [socket |-> socket_, buf |-> buf, at |-> t,
                                         status |-> "inflight"])]

RECURSIVE SendEach(_, _, _, _)
SendEach(c, buffers, t, k) ==
    IF k > Len(buffers) THEN c
    ELSE SendEach(send_data(c, buffers[k], t), buffers, t, k + 1)

\* the sample test of statsd.js's send: mt.genrand_real2(0,1) <= sample_rate
PassesLegacy(draw, sample_rate) == draw <= sample_rate.h

\* Client.prototype.send of statsd.js: data is a sequence of [stat, value],
\* one draw decides for the whole call
statsd_js_send(c, data, sample_rate, draw, t) ==
    LET rate == IF ~Truthy(sample_rate) THEN Whole(1) ELSE sample_rate
        sampled_data ==
            IF LessThanOne(rate)
            THEN IF PassesLegacy(draw, rate)
                 THEN [j \in DOMAIN data |->
                         [data[j] EXCEPT !.value = @ \o <<"|", "@">> \o ToStr(rate)]]
                 ELSE <<>>
            ELSE data
    IN  SendEach(c, [j \in DOMAIN sampled_data |->
                       sampled_data[j].stat \o <<":">> \o sampled_data[j].value], t, 1)

\* the random numbers statsd.js's send draws for this sample_rate
DrawsTaken(sample_rate, draw) ==
    IF Truthy(sample_rate) /\ LessThanOne(sample_rate) THEN <<draw>> ELSE <<>>

\* Client.prototype.update_stats with delta 1 (increment), stats a sequence of names
update_stats(c, stats, sample_rate, draw, t) ==
    statsd_js_send(c, [j \in DOMAIN stats |->
                         [stat |-> stats[j], value |-> ToStr(Whole(1)) \o <<"|", "c">>]],
                   sample_rate, draw, t)

\* the timer function, had it left this.ephemeral_socket in place
IdleTimeout_keepsSocket(c, k, t) ==
    LET c1 == IF c.ephemeral_socket # 0
              THEN closeSocket(c, c.ephemeral_socket, "timer", t) ELSE c
    IN  [c1 EXCEPT !.timers[k].state = "fired"]

\* the function given to setTimeout by _update_last_used, run at time t
IdleTimeout(c, k, t) ==
    LET c1 == IF c.ephemeral_socket # 0
              THEN closeSocket(c, c.ephemeral_socket, "timer", t) ELSE c
    IN  [c1 EXCEPT !.ephemeral_socket = 0, !.timers[k].state = "fired"]

\* Client.prototype.close of statsd.js, at time t: the client it leaves and how it
\* ends; cancelTimeout is not defined, so the call of it raises a ReferenceError
statsd_js_close(c, t) ==
    LET c1 == IF c.sharedSocket # 0
              THEN [closeSocket(c, c.sharedSocket, "close", t) EXCEPT !.sharedSocket = 0]
              ELSE c
        c2 == IF c1.ephemeral_socket # 0
              THEN [closeSocket(c1, c1.ephemeral_socket, "close", t)
                       EXCEPT !.ephemeral_socket = 0]
              ELSE c1
    IN  IF c2.last_used_timer # 0
        THEN [client |-> c2, outcome |-> "ReferenceError"]
        ELSE [client |-> c2, outcome |-> "returned"]

\* (stats, sample_rate) of the calls made on this client: one name and two
IdleArgs ==
    {[stats |-> <<<<"a">>>>, sample_rate |-> Undef],
     [stats |-> <<<<"a">>, <<"b">>>>, sample_rate |-> Undef]}

MaxTime == MaxTicks * (EPHEMERAL_LIFETIME_MS \div 2)

\* new Client(host, port, socket), with and without a socket
IdleInit ==
    /\ ClientInit /\ ~mock /\ ~batch /\ maxBatchLength = DEFAULT_MAX_BATCH_LENGTH
    /\ host = Str(<<"stats">>) /\ lookup = NoLookup
    /\ NoSampler /\ NoEncoder /\ NoOthers
    /\ \E given \in BOOLEAN :
          /\ sockets = IF given THEN <<createSocket(TRUE)>> ELSE <<>>
          /\ sharedSocket = IF given THEN 1 ELSE 0
    /\ ephemeral_socket = 0
    /\ last_used_timer = 0
    /\ timers = <<>>
    /\ writes = <<>>
    /\ sendLog = <<>>
    /\ closeOutcomes = <<>>
    /\ consoleLog = 0
    /\ now = 0

\* client.increment(stats, sample_rate)
IdleSend ==
    /\ Len(sendLog) + Len(closeOutcomes) < MaxOps
    /\ \E a \in IdleArgs, draw \in Draws :
          /\ IdleUpdate(update_stats(IdleCur, a.stats, a.sample_rate, draw, now))
          /\ sendLog' = Append(sendLog, [n |-> Len(a.stats), rate |-> a.sample_rate,
                                         draws |-> DrawsTaken(a.sample_rate, draw)])
    /\ UNCHANGED <<closeOutcomes, consoleLog, now, clientVars, sampler, encoder, otherVars>>

\* timer k runs when it is due
IdleTimerFire(k) ==
    /\ timers[k].state = "pending"
    /\ now >= timers[k].due
    /\ IdleUpdate(IdleTimeout(IdleCur, k, now))
    /\ UNCHANGED <<sendLog, closeOutcomes, consoleLog, now, clientVars, sampler, encoder, otherVars>>

\* client.close()
IdleClose ==
    /\ Len(sendLog) + Len(closeOutcomes) < MaxOps
    /\ LET r == statsd_js_close(IdleCur, now)
       IN  /\ IdleUpdate(r.client)
           /\ closeOutcomes' =
                 Append(closeOutcomes,
                        [outcome |-> r.outcome, writesBefore |-> Len(writes),
                         timerPending |-> \E k \in DOMAIN timers : timers[k].state = "pending",
                         pendingAfter |-> \E k \in DOMAIN r.client.timers :
                                             r.client.timers[k].state = "pending",
                         socket |-> ephemeral_socket])
    /\ UNCHANGED <<sendLog, consoleLog, now, clientVars, sampler, encoder, otherVars>>

\* time passes; a timer that is due runs before the clock moves on
Tick ==
    /\ now < MaxTime
    /\ \A k \in DOMAIN timers : timers[k].state = "pending" => now < timers[k].due
    /\ now' = now + (EPHEMERAL_LIFETIME_MS \div 2)
    /\ UNCHANGED <<sharedSocket, ephemeral_socket, last_used_timer, sockets, timers,
                   writes, sendLog, closeOutcomes, consoleLog, clientVars, sampler, encoder, otherVars>>

SomeIdleTimerFire == \E k \in DOMAIN timers : IdleTimerFire(k)

IdleNext ==
    \/ IdleSend
    \/ SomeIdleTimerFire
    \/ IdleClose
    \/ Tick

IdleSpec == IdleInit /\ [][IdleNext]_vars

\* the callback send_data gives to socket.send runs for write j, with an error or
\* without: function (err, bytes) { if (err) console.log(...) }
IdleWriteComplete(j, failed) ==
    /\ writes[j].status = "inflight"
    /\ writes' = [writes EXCEPT ![j].status = IF failed THEN "error" ELSE "ok"]
    /\ consoleLog' = IF failed THEN consoleLog + 1 ELSE consoleLog
    /\ UNCHANGED <<sharedSocket, ephemeral_socket, last_used_timer, sockets, timers,
                   sendLog, closeOutcomes, now, clientVars, sampler, encoder, otherVars>>

SomeIdleWriteComplete ==
    \E j \in DOMAIN writes, failed \in BOOLEAN : IdleWriteComplete(j, failed)

\* the same client with its writes completing, the clock standing still
IdleIoNext ==
    \/ IdleSend
    \/ SomeIdleWriteComplete
    \/ IdleClose

IdleIoSpec == IdleInit /\ [][IdleIoNext]_vars

-----------------------------------------------------------------------------
(* The sampler on its own: one send with 0 < sampleRate < 1 and a given draw *)

SampleRates == {5, 25, 50, 75, 95}
SampleDraws == {0, 5, 25, 50, 75, 95, 99}

\* the messages Client.prototype.send hands on for increment('a', 1, rate), given the draw
SendOutcome(rate, draw) ==
    LET s == [Cur EXCEPT !.calls = <<NewCall(Str(<<"a">>), Num(rate), Undef, Undef)>>]
    IN  send(s, 1, <<"a">>, Whole(1), <<"c">>, Num(rate), Undef, NoCallback, draw).accepted

\* the buffers statsd.js's send writes for increment('a', rate), given the draw
LegacyOutcome(rate, draw) ==
    LET c == update_stats(IdleCur, <<<<"a">>>>, Num(rate), draw, 0)
    IN  [j \in DOMAIN c.writes |-> c.writes[j].buf]

SamplerInit ==
    /\ ClientInit /\ ~mock /\ ~batch /\ maxBatchLength = DEFAULT_MAX_BATCH_LENGTH
    /\ host = Str(<<"stats">>) /\ lookup = NoLookup
    /\ NoIdleClient /\ NoEncoder /\ NoOthers
    /\ \E variant \in {"send", "statsd.js"}, rate \in SampleRates, draw \in SampleDraws :
          sampler = [phase |-> "drawn", variant |-> variant, rate |-> rate, draw |-> draw]

\* the send is made
Sample ==
    /\ sampler.phase = "drawn"
    /\ sampler' = [phase |-> "sent", variant |-> sampler.variant,
                   rate |-> sampler.rate, draw |-> sampler.draw,
                   out |-> IF sampler.variant = "send"
                           THEN SendOutcome(sampler.rate, sampler.draw)
                           ELSE LegacyOutcome(sampler.rate, sampler.draw)]
    /\ UNCHANGED <<clientVars, idleVars, encoder, otherVars>>

SamplerSpec == SamplerInit /\ [][Sample]_vars

-----------------------------------------------------------------------------
(* The encoder on its own: one metric call on a client with a prefix, a suffix
   and global tags *)

PrefixOptions == {Undef, Str(<<"p", ".">>)}
SuffixOptions == {Undef, Str(<<".", "s">>)}
GlobalTagOptions == {Undef, Arr(<<>>), Arr(<<<<"x">>>>), Arr(<<<<"z">>, <<"x">>>>)}
TagOptions == {Undef, Arr(<<>>), Arr(<<<<"x">>>>), Arr(<<<<"y">>, <<"x">>>>),
               Arr(<<<<"x">>, <<"x">>>>)}
EncoderValues == {Undef, Whole(0), Whole(1), Whole(-2), Num(50)}

\* new Client({prefix, suffix, global_tags}): neither a mock nor batching
EncoderClient(options) ==
    /\ mock = FALSE
    /\ batch = FALSE
    /\ maxBatchLength = DEFAULT_MAX_BATCH_LENGTH
    /\ prefix = Or(options.prefix, Str(<<>>)).v
    /\ suffix = Or(options.suffix, Str(<<>>)).v
    /\ global_tags = Or(options.global_tags, Arr(<<>>))
    /\ pendingMessages = <<>>
    /\ batchLength = 0
    /\ sendTimeout = "null"
    /\ socket = "open"
    /\ sent = <<>>
    /\ calls = <<>>
    /\ accepted = <<>>
    /\ delivered = <<>>
    /\ lastFlush = "none"
    /\ timerSince = 0
    /\ closeCalled = FALSE
    /\ host = Str(<<"stats">>)
    /\ lookup = NoLookup

\* the messages client.<method>(stat, value, undefined, tags) hands to the transport
Encoded(method, stat, value, tags) ==
    LET s == [Cur EXCEPT !.calls = <<NewCall(stat, Undef, tags, Undef)>>]
    IN  sendAll(s, 1, stat, ValueOf(method, value), TypeCode(method), Undef, tags, Undef,
                [k \in 1..Len(stat.v) |-> 0]).accepted

EncoderInit ==
    /\ \E p \in PrefixOptions, x \in SuffixOptions, g \in GlobalTagOptions :
          EncoderClient([prefix |-> p, suffix |-> x, global_tags |-> g])
    /\ NoIdleClient /\ NoSampler /\ NoOthers
    /\ \E method \in Methods, value \in EncoderValues, tags \in TagOptions :
          encoder = [phase |-> "args", method |-> method, value |-> value, tags |-> tags]

\* the call is made, for the one name 'a'
Encode ==
    /\ encoder.phase = "args"
    /\ encoder' = [phase |-> "sent", method |-> encoder.method, value |-> encoder.value,
                   tags |-> encoder.tags,
                   out |-> Encoded(encoder.method, Str(<<"a">>), encoder.value, encoder.tags)]
    /\ UNCHANGED <<clientVars, idleVars, sampler, otherVars>>

EncoderSpec == EncoderInit /\ [][Encode]_vars

-----------------------------------------------------------------------------
(* The TypeScript client's reading of its arguments: src/lib/statsd.ts *)

\* sendAll's locals sampleRate, tags and callback after its two tests
TsArguments(sampleRateOrTags, tagsOrCallback, callback) ==
    LET a == IF Truthy(sampleRateOrTags) /\ ~IsNumber(sampleRateOrTags)
                /\ IsFunction(tagsOrCallback)
             THEN [sampleRate |-> Undef, tags |-> sampleRateOrTags, callback |-> tagsOrCallback]
             ELSE [sampleRate |-> Undef, tags |-> Undef, callback |-> callback]
    IN  IF Truthy(tagsOrCallback) /\ ~IsArray(tagsOrCallback)
        THEN [a EXCEPT !.callback = tagsOrCallback, !.tags = Undef]
        ELSE a

\* Client.sendAll of statsd.ts, as call i; its send is the send of the JavaScript client
ts_sendAll(s, i, stat, value, type, sampleRateOrTags, tagsOrCallback, callback, draws) ==
    LET a == TsArguments(sampleRateOrTags, tagsOrCallback, callback)
    IN  IF IsArray(stat)
        THEN ForEachStat(s, i, stat.v, value, type, a.sampleRate, a.tags, draws, 1)
        ELSE send(s, i, stat.v, value, type, a.sampleRate, a.tags,
                  CallbackOf(a.callback, i), draws[1])

\* the messages client.timing(stat, 1, sampleRateOrTags, tagsOrCallback, callback)
\* hands to the transport when every draw is 0
TsEncoded(stat, sampleRateOrTags, tagsOrCallback, callback) ==
    LET a == TsArguments(sampleRateOrTags, tagsOrCallback, callback)
        s == [Cur EXCEPT !.calls = <<NewCall(stat, a.sampleRate, a.tags, a.callback)>>]
    IN  ts_sendAll(s, 1, stat, Whole(1), TypeCode("timing"), sampleRateOrTags,
                   tagsOrCallback, callback, [k \in 1..Len(stat.v) |-> 0]).accepted

\* the two ways of calling: (stat, value, sampleRate, tags, callback) and
\* (stat, value, tags, callback), with one name and with two
TsCalls ==
    {[stat |-> stat, a3 |-> r, a4 |-> t, a5 |-> cb] :
        stat \in {Str(<<"a">>), Arr(<<<<"a">>, <<"b">>>>)},
        r \in {Undef, Num(50), Whole(1)},
        t \in {Undef, Arr(<<<<"x">>>>), Arr(<<<<"y">>, <<"x">>>>)},
        cb \in {Undef, Fn}}
    \cup {[stat |-> stat, a3 |-> t, a4 |-> cb, a5 |-> Undef] :
            stat \in {Str(<<"a">>), Arr(<<<<"a">>, <<"b">>>>)},
            t \in {Arr(<<<<"x">>>>), Arr(<<<<"y">>, <<"x">>>>)},
            cb \in {Undef, Fn}}

TsInit ==
    /\ \E g \in GlobalTagOptions :
          EncoderClient([prefix |-> Undef, suffix |-> Undef, global_tags |-> g])
    /\ NoIdleClient /\ NoSampler /\ NoOthers
    /\ \E c \in TsCalls :
          encoder = [phase |-> "args", stat |-> c.stat, a3 |-> c.a3, a4 |-> c.a4, a5 |-> c.a5]

\* the call is made
TsEncode ==
    /\ encoder.phase = "args"
    /\ encoder' = [encoder EXCEPT !.phase = "ts sent"] @@
                  [out |-> TsEncoded(encoder.stat, encoder.a3, encoder.a4, encoder.a5)]
    /\ UNCHANGED <<clientVars, idleVars, sampler, otherVars>>

TsSpec == TsInit /\ [][TsEncode]_vars

-----------------------------------------------------------------------------
(* What the claims speak of *)

\* the write that carries message id, if any
WritesOf(id) == {k \in DOMAIN sent : \E j \in DOMAIN sent[k].ids : sent[k].ids[j] = id}

Written(id) == WritesOf(id) # {}

Completed(id) == \E k \in WritesOf(id) : sent[k].status # "inflight"

\* the sampler is consulted for this sampleRate
Sampling(rate) == Truthy(rate) /\ LessThanOne(rate)

\* all n sends of call i were written and all n completions have arrived
AllCompleted(i) ==
    /\ Len(calls[i].msgs) = calls[i].n
    /\ \A j \in DOMAIN calls[i].msgs : Completed(calls[i].msgs[j])

-----------------------------------------------------------------------------
\* C1: a fan-out call over an array of n >= 1 names, without sampling and with
\* batching off, invokes the caller's callback at most once in every state and
\* exactly once when all n write completions have arrived, whatever the order of
\* the completions and whichever of them report an error.
C1_FanOutCallbackExactlyOnce ==
    \A i \in DOMAIN calls :
        (calls[i].isArray /\ calls[i].hasCb /\ ~Sampling(calls[i].rate)) =>
            /\ calls[i].cbCount <= 1
            /\ AllCompleted(i) => calls[i].cbCount = 1

\* two names, both completions arrived, the first write failed and the second did not
C1_Witness ==
    \E i \in DOMAIN calls :
        /\ calls[i].isArray /\ calls[i].hasCb /\ calls[i].n = 2
        /\ ~Sampling(calls[i].rate)
        /\ AllCompleted(i)
        /\ sent[CHOOSE k \in WritesOf(calls[i].msgs[1]) : TRUE].status = "error"
        /\ sent[CHOOSE k \in WritesOf(calls[i].msgs[2]) : TRUE].status = "ok"
        /\ calls[i].cbCount = 1

\* C2: a send with sampleRate exactly 0 on a client that is not a mock writes
\* nothing, and its callback is invoked with no error and zero bytes.
C2_ZeroRateWritesNothing ==
    \A i \in DOMAIN calls :
        (calls[i].rate = Num(0) /\ calls[i].hasCb /\ ~calls[i].isArray) =>
            /\ calls[i].msgs = <<>>
            /\ calls[i].cbCount = 1
            /\ calls[i].cbErr = Null
            /\ calls[i].cbBytes = Whole(0)

\* C3: when the sampler drops a send made with 0 < sampleRate < 1, nothing is
\* written and the caller's callback is still invoked, with success.
C3_DroppedSampleCallsBack ==
    \A i \in DOMAIN calls :
        (~calls[i].isArray /\ calls[i].hasCb /\ Sampling(calls[i].rate)
            /\ calls[i].dropped = 1) =>
            /\ calls[i].msgs = <<>>
            /\ calls[i].cbCount = 1
            /\ calls[i].cbErr = Null

-----------------------------------------------------------------------------
(* The batching client *)

PendingIds == [j \in DOMAIN pendingMessages |-> pendingMessages[j].id]

PendingTexts == [j \in DOMAIN pendingMessages |-> pendingMessages[j].message]

RECURSIVE WrittenIds(_)
WrittenIds(k) == IF k = 0 THEN <<>> ELSE WrittenIds(k - 1) \o sent[k].ids

\* the messages of write k, joined by newline
TextOf(k) == Join([j \in DOMAIN sent[k].ids |-> accepted[sent[k].ids[j]]], <<"\n">>)

\* this step is a flush: the deadline timer running, or close()
Flushes == (sendTimeout = "armed" /\ sendTimeout' = "fired") \/ (~closeCalled /\ closeCalled')

\* C4: with batching on and timers and writes allowed to run, every message
\* accepted by _addToBatch is eventually part of a transport write, also when no
\* further message is added and close() is never called.
\* (A written message stays written, so this is: again and again, every message
\* accepted so far has been written.)
C4_AcceptedIsEventuallyWritten ==
    []<>(\A id \in DOMAIN accepted : Written(id))

\* C5: after the deadline timer has fired and flushed the queue, adding the next
\* message arms a fresh deadline timer.
C5_TimerRearmedAfterDeadlineFlush ==
    [][(lastFlush = "deadline" /\ pendingMessages = <<>> /\ pendingMessages' # <<>>)
            => sendTimeout' = "armed"]_vars

\* C6: in every state of a batching client, a non-empty pending queue has a
\* deadline timer pending.
C6_QueuedImpliesTimer ==
    pendingMessages # <<>> => sendTimeout = "armed"

\* C7: when no single message is longer than maxBatchLength, every buffer a batch
\* flush hands to the transport is at most maxBatchLength long, separators included.
C7_BatchFitsMaxBatchLength ==
    (\A id \in DOMAIN accepted : Len(accepted[id]) <= maxBatchLength) =>
        \A k \in DOMAIN sent : Len(sent[k].buf) <= maxBatchLength

\* C8: a flush is one write of the queued messages joined by newline in the order
\* they were added, and it empties the queue; over all adds and flushes the writes
\* list the messages in add order, each at most once.
C8_FlushWritesQueueInOrder ==
    /\ [](/\ WrittenIds(Len(sent)) \o PendingIds = [id \in DOMAIN accepted |-> id]
          /\ \A k \in DOMAIN sent : sent[k].ids # <<>> /\ sent[k].buf = TextOf(k))
    /\ [][/\ Len(sent') >= Len(sent)
          /\ \A k \in DOMAIN sent : sent'[k].ids = sent[k].ids /\ sent'[k].buf = sent[k].buf
          /\ Flushes =>
                /\ pendingMessages' = <<>>
                /\ IF pendingMessages # <<>>
                   THEN /\ Len(sent') = Len(sent) + 1
                        /\ sent'[Len(sent')].ids = PendingIds
                        /\ sent'[Len(sent')].buf = Join(PendingTexts, <<"\n">>)
                   ELSE Len(sent') = Len(sent)]_vars

\* three messages were added; a size flush wrote the first two in one buffer and
\* a later flush wrote the third
C8_Witness ==
    /\ Len(sent) = 2
    /\ sent[1].ids = <<1, 2>>
    /\ sent[2].ids = <<3>>
    /\ pendingMessages = <<>>

\* the outcome a completed write reported
Outcome(k) == IF sent[k].status = "error" THEN Err(k) ELSE Null

\* C9: when a batch write completes, the callback of every message of that batch
\* is invoked exactly once, with that write's outcome (the same error for all, or
\* success for all); callbacks of messages queued or in other writes are not
\* invoked by it.
C9_BatchOutcomeToEveryCallback ==
    /\ \A k \in DOMAIN sent : \A j \in DOMAIN sent[k].ids :
           sent[k].cbs[j] # NoCallback =>
               delivered[sent[k].ids[j]] =
                   IF sent[k].status = "inflight" THEN <<>> ELSE <<Outcome(k)>>
    /\ \A j \in DOMAIN pendingMessages : delivered[pendingMessages[j].id] = <<>>

\* a batch of two messages with callbacks failed while another write is in flight
C9_Witness ==
    \E k, l \in DOMAIN sent :
        /\ sent[k].status = "error"
        /\ Len(sent[k].ids) = 2
        /\ \A j \in 1..2 : sent[k].cbs[j] # NoCallback
        /\ sent[l].status = "inflight"
        /\ \E j \in DOMAIN sent[l].ids : sent[l].cbs[j] # NoCallback

\* the write close() issued
CloseWrites == {k \in DOMAIN sent : sent[k].batchCb = CloseSocket}

\* C10: close() on a batching client with messages queued issues one write of all
\* queued messages before it returns and the socket is closed only after that
\* write has completed; with an empty queue the socket is closed with no write.
C10_CloseFlushesThenCloses ==
    /\ [](socket = "closed" <=>
             (closeCalled /\ \A k \in CloseWrites : sent[k].status # "inflight"))
    /\ [][(~closeCalled /\ closeCalled') =>
             IF pendingMessages # <<>>
             THEN /\ Len(sent') = Len(sent) + 1
                  /\ sent'[Len(sent')].ids = PendingIds
                  /\ sent'[Len(sent')].batchCb = CloseSocket
                  /\ socket' = "open"
             ELSE sent' = sent /\ socket' = "closed"]_vars

\* close() found two messages queued; its write has completed and closed the socket
C10_Witness ==
    \E k \in CloseWrites :
        /\ Len(sent[k].ids) = 2
        /\ sent[k].status = "ok"
        /\ socket = "closed"

-----------------------------------------------------------------------------
(* The client with an idle timer *)

\* the client was constructed without a socket: every socket is its own
PrivateOnly == \A k \in DOMAIN sockets : ~sockets[k].injected

PendingTimers == {k \in DOMAIN timers : timers[k].state = "pending"}

\* the time of the most recent socket.send
LastWriteAt == writes[Len(writes)].at

\* C11: a socket injected at construction is never closed by the client: neither
\* a send nor close() closes it.
C11_InjectedSocketNeverClosed ==
    \A k \in DOMAIN sockets : sockets[k].injected => sockets[k].closes = 0

\* C12: close() called while the private socket is open and its idle timer is
\* pending returns without an error, closes the private socket and leaves no
\* idle timer pending.
C12_CloseWithTimerArmed ==
    \A j \in DOMAIN closeOutcomes :
        (closeOutcomes[j].socket # 0 /\ closeOutcomes[j].timerPending) =>
            /\ closeOutcomes[j].outcome = "returned"
            /\ sockets[closeOutcomes[j].socket].closes = 1
            /\ ~closeOutcomes[j].pendingAfter

\* C13: for a client constructed without a socket: while the private socket is
\* held, exactly one idle timer is pending and it is due one idle window after
\* the most recent send; a socket closed by the timer was closed no sooner than
\* one idle window after every send made on it; the socket is not held beyond
\* one idle window after the most recent send and a closed socket is not kept;
\* and a send made while no socket is held creates a socket and writes on it.
C13_IdleTimer ==
    /\ [](PrivateOnly =>
            /\ ephemeral_socket # 0 =>
                  /\ writes # <<>>
                  /\ PendingTimers = {last_used_timer}
                  /\ timers[last_used_timer].due = LastWriteAt + EPHEMERAL_LIFETIME_MS
                  /\ now <= LastWriteAt + EPHEMERAL_LIFETIME_MS
                  /\ sockets[ephemeral_socket].closes = 0
            /\ \A k \in DOMAIN sockets :
                  sockets[k].closedBy = "timer" =>
                     \A j \in DOMAIN writes :
                        writes[j].socket = k =>
                           sockets[k].closedAt >= writes[j].at + EPHEMERAL_LIFETIME_MS)
    /\ [][(PrivateOnly /\ ephemeral_socket = 0 /\ Len(writes') > Len(writes)) =>
            /\ Len(sockets') = Len(sockets) + 1
            /\ ephemeral_socket' = Len(sockets')
            /\ sockets'[ephemeral_socket'].closes = 0
            /\ \A j \in (Len(writes) + 1)..Len(writes') :
                  writes'[j].socket = ephemeral_socket']_vars

\* the timer closed the first socket one idle window after the second of two
\* sends on it, and a later send is written on a second socket
C13_Witness ==
    /\ PrivateOnly
    /\ Len(sockets) = 2
    /\ sockets[1].closedBy = "timer"
    /\ \E i, j \in DOMAIN writes :
          /\ writes[i].socket = 1 /\ writes[j].socket = 1
          /\ writes[i].at < writes[j].at
          /\ sockets[1].closedAt = writes[j].at + EPHEMERAL_LIFETIME_MS
    /\ writes[Len(writes)].socket = 2
    /\ ephemeral_socket = 2

\* C14: for a client constructed with a socket: every send made before any
\* close() is written on that socket, no other socket is ever created and no
\* idle timer is ever made.
C14_InjectedSocketOnly ==
    (sockets # <<>> /\ sockets[1].injected) =>
        /\ \A j \in DOMAIN writes :
              (\A c \in DOMAIN closeOutcomes : closeOutcomes[c].writesBefore >= j) =>
                  writes[j].socket = 1
        /\ Len(sockets) = 1
        /\ timers = <<>>

\* C15: at most one private socket is open at a time, and no private socket is
\* closed twice, whether by the idle timer after close() or by close() after
\* the idle timer.
C15_OnePrivateSocketClosedOnce ==
    /\ Cardinality({k \in DOMAIN sockets : ~sockets[k].injected /\ sockets[k].closes = 0}) <= 1
    /\ \A k \in DOMAIN sockets : ~sockets[k].injected => sockets[k].closes <= 1

\* the timer closed one socket and close() was called after it; close() closed
\* another socket and the timer it left pending has run after it
C15_Witness ==
    /\ PrivateOnly
    /\ \E k1, k2 \in DOMAIN sockets, c \in DOMAIN closeOutcomes, t \in DOMAIN timers :
          /\ sockets[k1].closedBy = "timer" /\ sockets[k1].closes = 1
          /\ closeOutcomes[c].writesBefore > 0 /\ closeOutcomes[c].socket = 0
          /\ writes[closeOutcomes[c].writesBefore].socket = k1
          /\ sockets[k2].closedBy = "close" /\ sockets[k2].closes = 1
          /\ timers[t].state = "fired" /\ timers[t].due > sockets[k2].closedAt
          /\ k2 > k1

-----------------------------------------------------------------------------
(* The mock client *)

\* C16: on a client constructed with mock true, no metric call, batch flush or
\* close() ever makes a socket.send.
C16_MockNeverWrites == mock => sent = <<>>

\* a batching mock client has been closed with a queued message, whose callback
\* has run
C16_Witness ==
    /\ mock /\ batch /\ closeCalled
    /\ lastFlush = "close"
    /\ \E i \in DOMAIN calls : calls[i].hasCb /\ calls[i].cbCount = 1 /\ calls[i].msgs # <<>>
    /\ sent = <<>>

\* C17 as stated: on a client constructed with mock true no socket exists, at
\* construction or later.
C17_MockCreatesNoSocket == mock => socket = "none"

\* C17: on a client constructed with mock true the constructor has created the
\* socket: it exists in every state, open until close() is called and closed
\* from then on.
C17_MockSocketFromConstructor ==
    mock => socket = IF closeCalled THEN "closed" ELSE "open"

\* a mock client that has taken a call and has been closed
C17_Witness == mock /\ calls # <<>> /\ closeCalled /\ socket = "closed"

\* C18: on a client constructed with mock true, batching or not, once a metric
\* call given a callback has returned, that callback has been invoked once, with
\* no error and zero bytes.
C18_MockCallsBackAtOnce ==
    mock => \A i \in DOMAIN calls :
               calls[i].hasCb =>
                  /\ calls[i].cbCount = 1
                  /\ calls[i].cbErr = Null
                  /\ calls[i].cbBytes = Whole(0)

-----------------------------------------------------------------------------
(* Sampling *)

\* the text of increment(name) with no prefix, suffix, sample rate or tags
IncrementText(name) == name \o <<":", "1", "|", "c">>

\* C19: on a client that is neither a mock nor batching, a call with sampleRate
\* 1 or omitted draws no random number, and each of its names is handed to
\* socket.send exactly once, in a write of its own carrying exactly its message.
C19_RateOneAlwaysWritten ==
    \A i \in DOMAIN calls :
        calls[i].rate \in {Undef, Whole(1)} =>
            /\ calls[i].draws = <<>>
            /\ Len(calls[i].msgs) = Len(calls[i].names)
            /\ \A j \in DOMAIN calls[i].msgs :
                  /\ Cardinality(WritesOf(calls[i].msgs[j])) = 1
                  /\ \A k \in WritesOf(calls[i].msgs[j]) :
                        /\ sent[k].ids = <<calls[i].msgs[j]>>
                        /\ sent[k].buf = IncrementText(calls[i].names[j])

\* a call with sampleRate 1 and a call of two names without sampleRate
C19_Witness ==
    /\ \E i \in DOMAIN calls : calls[i].rate = Whole(1) /\ Len(calls[i].msgs) = 1
    /\ \E i \in DOMAIN calls : calls[i].rate = Undef /\ Len(calls[i].msgs) = 2
    /\ Len(sent) = 3

\* C20 as stated: a send with 0 < sampleRate < 1 is emitted exactly when the
\* draw is at most sampleRate, and then carries |@ and the rate.
C20_EmittedUpToEquality ==
    sampler.phase = "sent" =>
        /\ sampler.out # <<>> <=> sampler.draw <= sampler.rate
        /\ sampler.out # <<>> =>
              sampler.out = <<IncrementText(<<"a">>) \o <<"|", "@">> \o NumStr(sampler.rate)>>

\* C20: a send with 0 < sampleRate < 1 is emitted by Client.prototype.send
\* exactly when the draw is below sampleRate (a draw equal to sampleRate is
\* dropped) and by statsd.js's send exactly when the draw is at most sampleRate;
\* an emitted message is the unsampled one followed by |@ and the rate.
C20_SampleTest ==
    sampler.phase = "sent" =>
        /\ sampler.out # <<>> <=> IF sampler.variant = "send"
                                  THEN sampler.draw < sampler.rate
                                  ELSE sampler.draw <= sampler.rate
        /\ sampler.out # <<>> =>
              sampler.out = <<IncrementText(<<"a">>) \o <<"|", "@">> \o NumStr(sampler.rate)>>

\* Client.prototype.send with sampleRate 0.25 and a draw of 0.05
C20_Witness ==
    /\ sampler.phase = "sent" /\ sampler.variant = "send"
    /\ sampler.rate = 25 /\ sampler.draw = 5
    /\ sampler.out = <<<<"a", ":", "1", "|", "c", "|", "@", "0", ".", "2", "5">>>>

-----------------------------------------------------------------------------
(* Fan-out *)

\* the writes of the names of call i
CallWrites(i) == UNION {WritesOf(calls[i].msgs[j]) : j \in DOMAIN calls[i].msgs}

RECURSIVE SumBytes(_)
SumBytes(K) ==
    IF K = {} THEN 0
    ELSE LET k == CHOOSE x \in K : TRUE IN Len(sent[k].buf) + SumBytes(K \ {k})

FailedWrites(i) == {k \in CallWrites(i) : sent[k].status = "error"}

C23_SampledFanOutCallsBackOnce ==
    \A i \in DOMAIN calls :
        (/\ calls[i].isArray /\ calls[i].hasCb /\ Sampling(calls[i].rate)
         /\ \A k \in CallWrites(i) : sent[k].status # "inflight") =>
            calls[i].cbCount = 1

-----------------------------------------------------------------------------
(* Errors of the transport *)

RECURSIVE StatsSent(_)
StatsSent(k) == IF k = 0 THEN 0 ELSE sendLog[k].n + StatsSent(k - 1)

\* C24: a write that fails is reported through the callback only: the client
\* makes no console output for it, and writes each stat once, without a retry.
C24_NoConsoleNoRetry ==
    /\ consoleLog = 0
    /\ Len(writes) = StatsSent(Len(sendLog))

-----------------------------------------------------------------------------
(* The deadline of a batch *)

\* C25: while a deadline timer is pending for a queue of messages, it is the
\* timer made when the first message of that queue was added: no later message
\* has cancelled it or made a later one in its place.
C25_DeadlineFromFirstMessage ==
    (batch /\ sendTimeout = "armed" /\ pendingMessages # <<>>) =>
        timerSince = pendingMessages[1].id

\* C26: once close() has been called on a batching client, no deadline timer is
\* pending and the queue is empty (no metric call is made after close()).
C26_ClosedLeavesNothingPending ==
    (batch /\ closeCalled) =>
        /\ sendTimeout # "armed"
        /\ pendingMessages = <<>>
        /\ batchLength = 0

\* close() was called while the timer made for a queued message was pending: that
\* message is in the write close() made
C26_Witness ==
    /\ batch /\ closeCalled
    /\ \E k \in CloseWrites : \E j \in DOMAIN sent[k].ids : sent[k].ids[j] = timerSince

-----------------------------------------------------------------------------
(* The encoder *)

\* where the tag section of a message starts: the index of its '#', or 0
TagMark(msg) ==
    IF \E k \in DOMAIN msg : msg[k] = "#"
    THEN CHOOSE k \in DOMAIN msg : msg[k] = "#" /\ \A j \in 1..(k - 1) : msg[j] # "#"
    ELSE 0

\* the message up to its tag section
HeadOf(msg) == IF TagMark(msg) = 0 THEN msg ELSE SubSeq(msg, 1, TagMark(msg) - 2)

\* the message from '|#' on
TagSectionOf(msg) ==
    IF TagMark(msg) = 0 THEN <<>> ELSE SubSeq(msg, TagMark(msg) - 1, Len(msg))

RECURSIVE CommaList(_)
CommaList(ts) ==
    IF Len(ts) = 1 THEN ts[1] ELSE ts[1] \o <<",">> \o CommaList(Tail(ts))

\* the tags given to the call and to the client, as lists
CallTags == IF encoder.tags.t = "arr" THEN encoder.tags.v ELSE <<>>
GlobalTags == global_tags.v

\* C27: the tag section of the encoded message is '|#' followed by the call's
\* tags and then the global tags, each list in its order, joined by commas,
\* repeated tags kept; with both lists empty the message has no tag section.
C27_TagsCallThenGlobal ==
    encoder.phase = "sent" =>
        /\ Len(encoder.out) = 1
        /\ TagSectionOf(encoder.out[1]) =
              IF CallTags \o GlobalTags = <<>> THEN <<>>
              ELSE <<"|", "#">> \o CommaList(CallTags \o GlobalTags)

\* call tags y,x on a client with global tags z,x
C27_Witness ==
    /\ encoder.phase = "sent"
    /\ encoder.method = "increment" /\ encoder.value = Whole(1)
    /\ prefix = <<"p", ".">> /\ suffix = <<".", "s">>
    /\ encoder.out = <<<<"p", ".", "a", ".", "s", ":", "1", "|", "c",
                         "|", "#", "y", ",", "x", ",", "z", ",", "x">>>>

\* the type code of each public method
CodeOf(method) ==
    CASE method = "timing" -> <<"m", "s">>
      [] method = "increment" -> <<"c">>
      [] method = "decrement" -> <<"c">>
      [] method = "gauge" -> <<"g">>
      [] method = "set" -> <<"s">>
      [] method = "unique" -> <<"s">>
      [] method = "histogram" -> <<"h">>

\* the value texts a method may emit for the value it is given: the value itself,
\* for decrement its negation, and for an omitted or zero delta a default
ValueTexts(method, value) ==
    IF method \in {"increment", "decrement"}
    THEN IF value.t = "num" /\ value.h # 0
         THEN {NumStr(IF method = "increment" THEN value.h ELSE -value.h)}
         ELSE {<<"0">>, <<"1">>, <<"-", "1">>}
    ELSE {ToStr(value)}

C29_DeltaAsGiven ==
    (encoder.phase = "sent" /\ encoder.method \in {"increment", "decrement"}) =>
        LET d == encoder.value
            text == prefix \o <<"a">> \o suffix \o <<":">>
        IN  /\ encoder.method = "increment" =>
                  HeadOf(encoder.out[1]) =
                     text \o (IF d.t = "num" THEN NumStr(d.h) ELSE <<"1">>) \o <<"|", "c">>
            /\ encoder.method = "decrement" =>
                  IF d.t = "num"
                  THEN encoder.out = Encoded("increment", Str(<<"a">>), Neg(d), encoder.tags)
                  ELSE HeadOf(encoder.out[1]) = text \o <<"-", "1", "|", "c">>

-----------------------------------------------------------------------------
(* The TypeScript client *)

\* the sample rate and the tags the caller gave, by the way of calling
TsGivenRate == IF encoder.a3.t = "num" THEN encoder.a3 ELSE Undef
TsGivenTags ==
    IF encoder.a3.t = "arr" THEN encoder.a3.v
    ELSE IF encoder.a4.t = "arr" THEN encoder.a4.v ELSE <<>>

\* the text of timing(name, 1) before its tag section, at the given rate
TsHead(name) ==
    name \o <<":", "1", "|", "m", "s">>
    \o (IF LessThanOne(TsGivenRate) THEN <<"|", "@">> \o NumStr(TsGivenRate.h) ELSE <<>>)

\* C30: in the TypeScript client a call made as (stat, value, sampleRate, tags,
\* callback) or as (stat, value, tags, callback) emits, for each name, a message
\* that carries '|@' + sampleRate when a sampleRate below 1 was given, and a tag
\* section of the call's tags followed by the global tags.
C30_TsAppliesRateAndTags ==
    encoder.phase = "ts sent" =>
        LET names == IF encoder.stat.t = "arr" THEN encoder.stat.v ELSE <<encoder.stat.v>>
        IN  /\ Len(encoder.out) = Len(names)
            /\ \A j \in DOMAIN encoder.out :
                  /\ HeadOf(encoder.out[j]) = TsHead(names[j])
                  /\ TagSectionOf(encoder.out[j]) =
                        IF TsGivenTags \o GlobalTags = <<>> THEN <<>>
                        ELSE <<"|", "#">> \o CommaList(TsGivenTags \o GlobalTags)

-----------------------------------------------------------------------------
(* statsd.js: sampled calls over several names *)

\* client.increment(['a', 'b'], 0.5): mt.genrand_real2 gives draw
IdleSampledSend ==
    /\ Len(sendLog) + Len(closeOutcomes) < MaxOps
    /\ \E stats \in {<<<<"a">>>>, <<<<"a">>, <<"b">>>>}, draw \in Draws :
          /\ IdleUpdate(update_stats(IdleCur, stats, Num(50), draw, now))
          /\ sendLog' = Append(sendLog, [n |-> Len(stats), rate |-> Num(50),
                                         draws |-> DrawsTaken(Num(50), draw)])
    /\ UNCHANGED <<closeOutcomes, consoleLog, now, clientVars, sampler, encoder, otherVars>>

IdleSampledNext ==
    \/ IdleSampledSend
    \/ IdleClose

IdleSampledSpec == IdleInit /\ [][IdleSampledNext]_vars

\* C31: in a call over n names with 0 < sampleRate < 1 every name is sampled by
\* a draw of its own: the call takes n draws, one per name, so that any subset
\* of the names can be emitted.
C31_OneDrawPerName ==
    \A i \in DOMAIN sendLog :
       (sendLog[i].rate.t = "num" /\ sendLog[i].rate.h > 0 /\ LessThanOne(sendLog[i].rate))
          => Len(sendLog[i].draws) = sendLog[i].n

-----------------------------------------------------------------------------
(* cacheDns *)

\* this.host as the constructor set it
ConfiguredHost == Or(lookup.hostname, Str(<<"localhost">>))

-----------------------------------------------------------------------------
(* Fan-out on a batching client *)

\* C33: with batching on, when the batch writes holding the messages of all n
\* names of a fan-out call have succeeded, the caller's callback has been
\* invoked exactly once, with no error and a byte total that is a number.
C33_BatchFanOutNumericTotal ==
    batch =>
       \A i \in DOMAIN calls :
          (/\ calls[i].isArray /\ calls[i].hasCb /\ ~Sampling(calls[i].rate)
           /\ AllCompleted(i)
           /\ \A k \in CallWrites(i) : sent[k].status = "ok") =>
              /\ calls[i].cbCount = 1
              /\ calls[i].cbErr = Null
              /\ calls[i].cbBytes.t = "num"

-----------------------------------------------------------------------------
(* The batch queue and its length *)

\* client.increment(stat) without a callback, over one name and over two
QueueCall ==
    \E stat \in {Str(<<"a">>), Arr(<<<<"a">>, <<"b">>>>)} :
       Call("increment", stat, Undef, Undef, Undef, Undef)

QueueNext ==
    \/ QueueCall
    \/ TimerFire
    \/ SomeWriteComplete
    \/ Close

\* the batching client, its calls made without callbacks
QueueSpec == BatchInit /\ [][QueueNext]_vars

\* the sum of the lengths of the messages of a queue
RECURSIVE SumLen(_)
SumLen(q) == IF q = <<>> THEN 0 ELSE Len(Head(q).message) + SumLen(Tail(q))

\* C34: on a batching client batchLength is, in every state, the sum of the
\* lengths of the messages in pendingMessages, and so 0 exactly when the queue
\* is empty; a flush (by the deadline timer or by close) of an empty queue makes
\* no transport write.
C34_BatchLengthIsQueueLength ==
    /\ [](batch => /\ batchLength = SumLen(pendingMessages)
                   /\ batchLength = 0 <=> pendingMessages = <<>>)
    /\ [][(/\ batch /\ pendingMessages = <<>>
           /\ \/ ~closeCalled /\ closeCalled'
              \/ sendTimeout = "armed" /\ sendTimeout' = "fired") => sent' = sent]_vars

\* two messages of five characters are queued after a flush, and the client is
\* not yet closed
C34_Witness ==
    /\ batch /\ ~closeCalled
    /\ Len(sent) = 1
    /\ Len(pendingMessages) = 2
    /\ batchLength = 10

-----------------------------------------------------------------------------
(* Multi and its client: src/unnamed/part_000, lines 558-880 *)

\* x < 1 where x may be an array: [] converts to 0, an array of tags to NaN
LooseLessThanOne(x) == IF x.t = "arr" THEN x.v = <<>> ELSE LessThanOne(x)

\* Math.random() < x, the draw in hundredths: never below 0 or NaN
DrawBelow(draw, x) == x.t = "num" /\ draw < x.h

\* Client.prototype.message: the text, or null when the sample is dropped
multi_message(stat, value, type, sampleRate, tags, draw) ==
    LET base == prefix \o stat \o suffix \o <<":">> \o ToStr(value) \o <<"|">> \o type
        sampling == Truthy(sampleRate) /\ LooseLessThanOne(sampleRate)
        rated == IF sampling THEN base \o <<"|", "@">> \o ToStr(sampleRate) ELSE base
        tagged == IF Truthy(tags) /\ IsArray(tags)
                  THEN rated \o <<"|", "#">> \o Join(tags.v, <<",">>)
                  ELSE rated
    IN  IF sampling /\ ~DrawBelow(draw, sampleRate) THEN Null ELSE Str(tagged)

\* Array.prototype.filter(function (item) { return !!item })
RECURSIVE FilterTruthy(_)
FilterTruthy(items) ==
    IF items = <<>> THEN <<>>
    ELSE (IF Truthy(Head(items)) THEN <<Head(items)>> ELSE <<>>) \o FilterTruthy(Tail(items))

\* Client.prototype.allMessages
allMessages(stat, value, type, sampleRate, tags, draws) ==
    LET stats == IF IsArray(stat) THEN stat.v ELSE <<stat.v>>
    IN  FilterTruthy([j \in DOMAIN stats |->
                        multi_message(stats[j], value, type, sampleRate, tags, draws[j])])

\* Multi.prototype[fn]: functions[fn]('allMessages').apply(this.client, arguments),
\* the messages this.messages gains
Multi_fn(method, stat, value, sampleRate, tags, draws) ==
    LET items == allMessages(stat, ValueOf(method, value), TypeCode(method),
                             sampleRate, tags, draws)
    IN  [j \in DOMAIN items |-> ToStr(items[j])]

MultiCur == [messages |-> messages, multiSends |-> multiSends, multiWrites |-> multiWrites]

MultiUpdate(u) ==
    /\ messages' = u.messages
    /\ multiSends' = u.multiSends
    /\ multiWrites' = u.multiWrites

\* the callback of Multi.send number i is invoked with (err, bytes)
MultiCallback(u, i, err, bytes) ==
    IF u.multiSends[i].hasCb
    THEN [u EXCEPT !.multiSends[i].cbCount = @ + 1,
                   !.multiSends[i].cbErr = err,
                   !.multiSends[i].cbBytes = bytes]
    ELSE u

\* Client.prototype.sendMessage, for Multi.send number i
sendMessage(u, i, text) ==
    IF ~mock
    THEN [u EXCEPT !.multiWrites = Append(@, [buf |-> text, send |-> i,
                                              status |-> "inflight"]),
                   !.multiSends[i].write = Len(u.multiWrites) + 1]
    ELSE MultiCallback(u, i, Null, Whole(0))

\* the record of a Multi.send: what the caller observes of it
NewMultiSend(callback, callsBefore) ==
    [hasCb |-> IsFunction(callback), callsBefore |-> callsBefore, write |-> 0,
     cbCount |-> 0, cbErr |-> Undef, cbBytes |-> Undef]

\* Multi.send without the test for an empty list
Multi_send_writesEmpty(u, callback, callsBefore) ==
    LET i == Len(u.multiSends) + 1
        u1 == [u EXCEPT !.multiSends = Append(@, NewMultiSend(callback, callsBefore))]
    IN  sendMessage(u1, i, Join(u.messages, <<"\n">>))

\* Multi.prototype.send
Multi_send(u, callback, callsBefore) ==
    LET i == Len(u.multiSends) + 1
        u1 == [u EXCEPT !.multiSends = Append(@, NewMultiSend(callback, callsBefore))]
    IN  IF Len(u.messages) = 0
        THEN MultiCallback(u1, i, Null, Whole(0))
        ELSE sendMessage(u1, i, Join(u.messages, <<"\n">>))

\* (stat, sampleRate) of the metric calls made on the Multi
MultiArgs ==
    {[stat |-> stat, sampleRate |-> r] :
        stat \in {Str(<<"a">>), Arr(<<<<"a">>, <<"b">>>>)}, r \in {Undef, Num(50)}}

\* client.multi(), the client being neither a mock nor batching
MultiInit == DirectInit

\* multi.increment(stat, 1, sampleRate)
MultiMetric ==
    /\ Len(multiCalls) + Len(multiSends) < MaxOps
    /\ \E a \in MultiArgs :
       \E draws \in [1..(IF IsArray(a.stat) THEN Len(a.stat.v) ELSE 1) -> Draws] :
          /\ messages' = messages \o Multi_fn("increment", a.stat, Whole(1),
                                              a.sampleRate, Undef, draws)
          /\ multiCalls' = Append(multiCalls,
                                  [names |-> IF IsArray(a.stat) THEN a.stat.v ELSE <<a.stat.v>>,
                                   rate |-> a.sampleRate,
                                   draws |-> IF Truthy(a.sampleRate) THEN draws ELSE <<>>])
    /\ UNCHANGED <<multiSends, multiWrites, bufferVars, clientVars, idleVars, sampler, encoder>>

\* multi.send(callback)
MultiSend ==
    /\ Len(multiCalls) + Len(multiSends) < MaxOps
    /\ \E callback \in {Undef, Fn} :
          MultiUpdate(Multi_send(MultiCur, callback, Len(multiCalls)))
    /\ UNCHANGED <<multiCalls, bufferVars, clientVars, idleVars, sampler, encoder>>

\* socket.send number k of the client completes, with an error or with the
\* bytes written, and runs the callback given to Multi.send
MultiWriteComplete(k, failed) ==
    /\ multiWrites[k].status = "inflight"
    /\ LET u == [MultiCur EXCEPT !.multiWrites[k].status = IF failed THEN "error" ELSE "ok"]
           i == multiWrites[k].send
       IN  MultiUpdate(IF failed THEN MultiCallback(u, i, Err(k), Undef)
                       ELSE MultiCallback(u, i, Null, Whole(Len(multiWrites[k].buf))))
    /\ UNCHANGED <<multiCalls, bufferVars, clientVars, idleVars, sampler, encoder>>

SomeMultiWriteComplete ==
    \E k \in DOMAIN multiWrites, failed \in BOOLEAN : MultiWriteComplete(k, failed)

MultiNext ==
    \/ MultiMetric
    \/ MultiSend
    \/ SomeMultiWriteComplete

MultiSpec == MultiInit /\ [][MultiNext]_vars

\* the messages a metric call must add: for each name in turn, unless its own
\* draw drops it, name:1|c with |@rate when sampled
RECURSIVE KeptOf(_, _)
KeptOf(c, j) ==
    IF j > Len(c.names) THEN <<>>
    ELSE LET sampled == c.rate.t = "num" /\ c.rate.h < 100
             text == c.names[j] \o <<":", "1", "|", "c">>
                     \o (IF sampled THEN <<"|", "@">> \o NumStr(c.rate.h) ELSE <<>>)
         IN  (IF sampled /\ c.draws[j] >= c.rate.h THEN <<>> ELSE <<text>>)
             \o KeptOf(c, j + 1)

\* the messages of the first n metric calls, in call order
RECURSIVE CollectedBy(_)
CollectedBy(n) == IF n = 0 THEN <<>> ELSE CollectedBy(n - 1) \o KeptOf(multiCalls[n], 1)

\* C35: a Multi holds the messages of its metric calls in call order, without
\* those the sampler dropped; each Multi.send that finds messages makes exactly
\* one transport write, of all of them joined by newline, and its callback gets
\* the outcome of that write; a Multi.send that finds none makes no write and
\* its callback gets no error and zero bytes.
C35_MultiCollectsAndSendsOnce ==
    /\ messages = CollectedBy(Len(multiCalls))
    /\ \A k \in DOMAIN multiWrites :
          /\ multiWrites[k].send \in DOMAIN multiSends
          /\ multiSends[multiWrites[k].send].write = k
    /\ \A i \in DOMAIN multiSends :
          LET s == multiSends[i]
              found == CollectedBy(s.callsBefore)
          IN  IF found = <<>>
              THEN /\ s.write = 0
                   /\ s.hasCb => s.cbCount = 1 /\ s.cbErr = Null /\ s.cbBytes = Whole(0)
              ELSE /\ s.write \in DOMAIN multiWrites
                   /\ LET w == multiWrites[s.write]
                      IN  /\ w.buf = Join(found, <<"\n">>)
                          /\ w.status = "inflight" => s.cbCount = 0
                          /\ (w.status = "ok" /\ s.hasCb) =>
                                /\ s.cbCount = 1 /\ s.cbErr = Null
                                /\ s.cbBytes = Whole(Len(w.buf))
                          /\ (w.status = "error" /\ s.hasCb) =>
                                s.cbCount = 1 /\ s.cbErr = Err(s.write)
                   /\ ~s.hasCb => s.cbCount = 0

\* 'a' was kept and 'b' dropped by one sampled call, a second call added 'a';
\* one send wrote both lines with success and one send before any call wrote nothing
C35_Witness ==
    /\ Len(multiSends) = 2 /\ Len(multiWrites) = 1
    /\ multiSends[1].write = 0 /\ multiSends[1].cbCount = 1
    /\ multiWrites[1].buf = <<"a", ":", "1", "|", "c", "|", "@", "0", ".", "5", "\n",
                              "a", ":", "1", "|", "c">>
    /\ multiWrites[1].status = "ok"
    /\ multiSends[2].cbBytes = Whole(16)

-----------------------------------------------------------------------------
(* A Multi method and the Client method of the same name *)

\* Client.prototype.send for each name in turn: the texts handed to socket.send;
\* message() gives null for a dropped sample and new Buffer(null) throws, which
\* ends the forEach
RECURSIVE SendEachItem(_, _, _, _, _, _, _)
SendEachItem(items, value, type, sampleRate, tags, draws, k) ==
    IF k > Len(items) THEN <<>>
    ELSE LET msg == multi_message(items[k], value, type, sampleRate, tags, draws[k])
         IN  IF msg = Null THEN <<>>
             ELSE <<ToStr(msg)>>
                  \o SendEachItem(items, value, type, sampleRate, tags, draws, k + 1)

\* Client.prototype[fn] = functions[fn]('sendAll'): the texts it sends
Client_fn(method, stat, value, sampleRate, tags, callback, draws) ==
    LET a == Arguments(sampleRate, tags, callback)
    IN  SendEachItem(IF IsArray(stat) THEN stat.v ELSE <<stat.v>>,
                     ValueOf(method, value), TypeCode(method), a.sampleRate, a.tags,
                     draws, 1)

\* the calls compared: (stat, value, sampleRate, tags) with the sample rate given
\* or not, and (stat, value, tags) with the tags in the sample rate's place
MultiEncoderCalls ==
    {[stat |-> stat, a3 |-> r, a4 |-> t] :
        stat \in {Str(<<"a">>), Arr(<<<<"a">>, <<"b">>>>)},
        r \in {Undef, Num(50), Whole(1)},
        t \in {Undef, Arr(<<<<"x">>>>), Arr(<<<<"y">>, <<"x">>>>)}}
    \cup {[stat |-> stat, a3 |-> t, a4 |-> Undef] :
            stat \in {Str(<<"a">>), Arr(<<<<"a">>, <<"b">>>>)},
            t \in {Arr(<<>>), Arr(<<<<"x">>>>), Arr(<<<<"y">>, <<"x">>>>)}}

MultiEncoderInit ==
    /\ \E p \in PrefixOptions, x \in SuffixOptions :
          EncoderClient([prefix |-> p, suffix |-> x, global_tags |-> Undef])
    /\ NoIdleClient /\ NoSampler /\ NoOthers
    /\ \E method \in Methods, c \in MultiEncoderCalls, draws \in [1..2 -> Draws] :
          encoder = [phase |-> "args", method |-> method, stat |-> c.stat,
                     a3 |-> c.a3, a4 |-> c.a4, draws |-> draws]

\* the call is made on a Multi and on the client, with the same draws
MultiEncode ==
    /\ encoder.phase = "args"
    /\ encoder' = [encoder EXCEPT !.phase = "multi sent"] @@
                  [queued |-> Multi_fn(encoder.method, encoder.stat, Whole(2),
                                       encoder.a3, encoder.a4, encoder.draws),
                   clientSent |-> Client_fn(encoder.method, encoder.stat, Whole(2),
                                            encoder.a3, encoder.a4, Undef, encoder.draws)]
    /\ UNCHANGED <<clientVars, idleVars, sampler, otherVars>>

MultiEncoderSpec == MultiEncoderInit /\ [][MultiEncode]_vars

\* C36: for the same arguments and the same draws, a Multi metric method queues
\* exactly the texts the Client method of the same name sends, also when the
\* sampleRate is left out and the tags array is passed in its place.
C36_MultiQueuesWhatClientSends ==
    encoder.phase = "multi sent" => encoder.queued = encoder.clientSent

-----------------------------------------------------------------------------
(* The client with a socket per send: src/unnamed/part_000, lines 248-339.
   Its fields are those of the client with an idle timer, without the timer:
   sharedSocket is this.socket, sockets the dgram sockets made, writes the
   socket.send calls. *)

\* Client.prototype.send_data
perSend_send_data(c, buf, t) ==
    LET c1 == IF c.sharedSocket = 0
              THEN [c EXCEPT !.sockets = Append(@, createSocket(FALSE))]
              ELSE c
        socket_ == IF c.sharedSocket = 0 THEN Len(c1.sockets) ELSE c.sharedSocket
    IN  [c1 EXCEPT !.writes = Append(@, [socket |-> socket_, buf |-> buf, at |-> t,
                                         status |-> "inflight"])]

RECURSIVE perSend_SendEach(_, _, _, _)
perSend_SendEach(c, buffers, t, k) ==
    IF k > Len(buffers) THEN c
    ELSE perSend_SendEach(perSend_send_data(c, buffers[k], t), buffers, t, k + 1)

\* Client.prototype.update_stats with delta 1 and Client.prototype.send, the
\* sample rate omitted: one send_data per stat
perSend_update_stats(c, stats, t) ==
    perSend_SendEach(c, [j \in DOMAIN stats |->
                           stats[j] \o <<":">> \o ToStr(Whole(1)) \o <<"|", "c">>], t, 1)

\* the callback of send_data, had it left the socket open
perSend_callback_keepsSocket(c, j, failed, t) ==
    [c EXCEPT !.writes[j].status = IF failed THEN "error" ELSE "ok"]

\* the callback send_data gives to socket.send, run for write j:
\* function (err, bytes) { if (err) console.log(...);
\*                         if (self.socket === undefined) socket.close() }
perSend_callback(c, j, failed, t) ==
    LET c1 == [c EXCEPT !.writes[j].status = IF failed THEN "error" ELSE "ok"]
    IN  IF c.sharedSocket = 0 THEN closeSocket(c1, c.writes[j].socket, "send", t) ELSE c1

\* client.increment(stats)
PerSendCall ==
    /\ Len(sendLog) < MaxCalls
    /\ \E a \in IdleArgs :
          /\ IdleUpdate(perSend_update_stats(IdleCur, a.stats, now))
          /\ sendLog' = Append(sendLog, [n |-> Len(a.stats), rate |-> a.sample_rate,
                                         draws |-> <<>>])
    /\ UNCHANGED <<closeOutcomes, consoleLog, now, clientVars, sampler, encoder, otherVars>>

\* socket.send number j completes, with an error or without
PerSendWriteComplete(j, failed) ==
    /\ writes[j].status = "inflight"
    /\ IdleUpdate(perSend_callback(IdleCur, j, failed, now))
    /\ consoleLog' = IF failed THEN consoleLog + 1 ELSE consoleLog
    /\ UNCHANGED <<sendLog, closeOutcomes, now, clientVars, sampler, encoder, otherVars>>

SomePerSendWriteComplete ==
    \E j \in DOMAIN writes, failed \in BOOLEAN : PerSendWriteComplete(j, failed)

PerSendNext ==
    \/ PerSendCall
    \/ SomePerSendWriteComplete

\* new Client(host, port, socket), with and without a socket; the event loop
\* completes every socket.send
PerSendSpec == IdleInit /\ [][PerSendNext]_vars /\ WF_vars(SomePerSendWriteComplete)

\* the most sockets the calls can create
MaxSockets == 2 * MaxCalls

\* C37: a socket created for a send is open while its write is in flight and is
\* closed exactly once, by the completion callback of that write, whether the
\* write succeeded or failed; every such socket is closed in the end; a socket
\* given at construction is never closed.
C37_SocketPerSendClosedOnce ==
    /\ [](/\ \A j \in DOMAIN writes :
                LET k == writes[j].socket
                IN  IF sockets[k].injected
                    THEN k = sharedSocket
                    ELSE /\ \A l \in DOMAIN writes : writes[l].socket = k => l = j
                         /\ writes[j].status = "inflight" => sockets[k].closes = 0
                         /\ writes[j].status # "inflight" =>
                               sockets[k].closes = 1 /\ sockets[k].closedBy = "send"
          /\ \A k \in DOMAIN sockets :
                /\ sockets[k].injected => sockets[k].closes = 0
                /\ ~sockets[k].injected => \E j \in DOMAIN writes : writes[j].socket = k)
    /\ \A k \in 1..MaxSockets :
          [](k \in DOMAIN sockets =>
                <>(k \in DOMAIN sockets /\ (sockets[k].injected \/ sockets[k].closes = 1)))

\* two sockets were created by one call; the write of the first failed and its
\* socket is closed, the write of the second has not completed and its socket is open
C37_Witness ==
    /\ sharedSocket = 0
    /\ Len(sockets) = 2 /\ Len(writes) = 2
    /\ writes[1].status = "error" /\ sockets[1].closes = 1
    /\ writes[2].status = "inflight" /\ sockets[2].closes = 0

-----------------------------------------------------------------------------
(* The client with a buffer: src/unnamed/part_000, lines 1-105 *)

\* the methods Client.prototype has
BufferClientMethods ==
    {"timing", "increment", "decrement", "gauge", "update_stats", "send_buffer",
     "run_batch_timeout", "send"}

\* the batch_len and batch_timeout given to the constructor
BatchLenOptions == {Undef} \cup {Whole(n) : n \in {0, 1, 5, 10, 20, 100, 400, 1000}}
BatchTimeoutOptions == {Undef} \cup {Whole(n) : n \in {0, 1, 10, 100, 500, 1000, 5000}}

\* `new Client(host, port, batch_len, batch_timeout)` is about to run; batch_len
\* and batch_timeout hold its arguments
BufferInit ==
    /\ ClientInit /\ ~mock /\ ~batch /\ maxBatchLength = DEFAULT_MAX_BATCH_LENGTH
    /\ host = Str(<<"stats">>) /\ lookup = NoLookup
    /\ NoIdleClient /\ NoSampler /\ NoEncoder /\ NoMulti
    /\ batch_len \in BatchLenOptions
    /\ batch_timeout \in BatchTimeoutOptions
    /\ last_send = 0
    /\ buffer = <<>>
    /\ interval = "none"
    /\ constructed = "no"

\* this[method](): the call of a method the prototype has starts the interval;
\* the call of a name it does not have is a call of undefined, a TypeError
CallOwnMethod(method) ==
    IF method \in BufferClientMethods
    THEN [interval |-> "running", outcome |-> "returned"]
    ELSE [interval |-> "none", outcome |-> "TypeError"]

\* the constructor: its assignments, then this.run_bacth_timeout()
BufferConstruct ==
    /\ constructed = "no"
    /\ batch_len' = Or(batch_len, Whole(DEFAULT_BATCH_LEN))
    /\ batch_timeout' = Or(batch_timeout, Whole(DEFAULT_BATCH_TIMEOUT))
    /\ last_send' = 0
    /\ buffer' = <<>>
    /\ LET r == CallOwnMethod("run_bacth_timeout")
       IN  /\ interval' = r.interval
           /\ constructed' = r.outcome
    /\ UNCHANGED <<multiVars, clientVars, idleVars, sampler, encoder>>

BufferSpec == BufferInit /\ [][BufferConstruct]_vars

\* C38: constructing the client with a buffer succeeds and starts the periodic
\* check that writes a non-empty buffer once batch_timeout ms have passed since
\* the last send.
C38_ConstructionStartsPeriodicCheck ==
    constructed # "no" => constructed = "returned" /\ interval = "running"
====
